---- MODULE Spec2Model ----
(***************************************************************************)
(* Model of the phoebe_phitter MCMC fitters:                               *)
(*   mcmc_fitter_rad_interp  (src/mcmc_fit.py)                             *)
(*   mcmc_fitter_bb          (src/phitter/mcmc_fit_bb_wRV.py)              *)
(* and of the forward model with mesh plots (src/phitter/mesh_animate.py). *)
(*                                                                         *)
(* Numbers.  Physical quantities are integers on a fixed grid per          *)
(* quantity: magnitudes, degrees, days, km/s, pc and K in units of 1;      *)
(* masses and radii in tenths of a solar unit; eccentricity in tenths.     *)
(* A value is a record [v, u]: u = "" for a bare float and the unit name   *)
(* for an astropy Quantity (the class defaults of mass, radius and teff    *)
(* are Quantities, the theta slots are bare floats).                       *)
(*                                                                         *)
(* Floats returned by lnprior / lnlike / lnprob are records [k, n, g]:     *)
(* k is "fin", "ninf", "pinf" or "nan" (or "raise" when the call raises    *)
(* instead of returning); for a finite value n counts eighths (the         *)
(* chi-square part) and g is the set of Gaussian log-density terms added   *)
(* to it, each kept symbolically as <<name, x - mu, sigma>>.               *)
(***************************************************************************)
EXTENDS Integers, Sequences, FiniteSets, TLC

VARIABLES fitter, cfg, nsetup, data, out

vars == <<fitter, cfg, nsetup, data, out>>

\* The number of configuration calls (setters, attribute assignments) made
\* on a fitter before sampling.
MaxSetup == 2

----------------------------------------------------------------------------
\* Floats

Fin(n, g) == [k |-> "fin", n |-> n, g |-> g]
Zero == Fin(0, {})
NegInf == [k |-> "ninf", n |-> 0, g |-> {}]
PosInf == [k |-> "pinf", n |-> 0, g |-> {}]
NaN == [k |-> "nan", n |-> 0, g |-> {}]
Raise == [k |-> "raise", n |-> 0, g |-> {}]
NoFloat == [k |-> "none", n |-> 0, g |-> {}]

\* np.isfinite
isfinite(x) == x.k = "fin"

\* float addition, IEEE: nan absorbs, inf + -inf = nan (an operand that
\* raised instead of giving a value makes the sum raise)
FAdd(a, b) ==
  IF a.k = "raise" \/ b.k = "raise" THEN Raise
  ELSE IF a.k = "nan" \/ b.k = "nan" THEN NaN
  ELSE IF a.k = "fin" /\ b.k = "fin" THEN Fin(a.n + b.n, a.g \cup b.g)
  ELSE IF a.k = "fin" THEN b
  ELSE IF b.k = "fin" THEN a
  ELSE IF a.k = b.k THEN a
  ELSE NaN

\* Values with units
Bare(x) == [v |-> x, u |-> ""]
Qty(x, unit) == [v |-> x, u |-> unit]

\* A comparison or subtraction of a bare number with a dimensional Quantity
\* is refused by the units library unless the bare number is 0.
UnitsAgree(a, b) ==
  \/ a.u = b.u
  \/ a.u = "" /\ a.v = 0
  \/ b.u = "" /\ b.v = 0

\* Gt with the comparison weakened to >=
Gt_geq(a, b) == IF ~UnitsAgree(a, b) THEN "E" ELSE IF a.v >= b.v THEN "T" ELSE "F"

\* a > b: "T", "F", or "E" when the comparison raises
Gt(a, b) == IF ~UnitsAgree(a, b) THEN "E" ELSE IF a.v > b.v THEN "T" ELSE "F"

\* Within without the upper bound
Within_lo_only(lo, x, hi) == IF lo <= x THEN "T" ELSE "F"

\* lo <= x <= hi on bare numbers
Within(lo, x, hi) == IF lo <= x /\ x <= hi THEN "T" ELSE "F"

----------------------------------------------------------------------------
\* Configuration

Fitters == {"rad_interp", "bb"}

\* The bounded quantities of mcmc_fitter_bb in the order theta is read.
Quantities_bb ==
  <<"Kp_ext", "H_ext_mod",
    "star1_mass", "star1_rad", "star1_teff",
    "star2_mass", "star2_rad", "star2_teff",
    "binary_inc", "binary_period", "binary_rv_sys",
    "binary_ecc", "binary_dist", "t0">>

\* The quantities of mcmc_fitter_rad_interp in the order of its theta tuple.
Quantities_rad_interp ==
  <<"Kp_ext", "H_ext_mod", "star1_rad", "star2_rad",
    "binary_inc", "binary_period", "binary_ecc", "t0">>

QSet == {Quantities_bb[i] : i \in DOMAIN Quantities_bb}

\* Quantities with a model_* toggle (mcmc_fitter_bb); the others are always
\* read from theta.  model_system_RV exists as an attribute.
Toggles_bb ==
  {"H_ext_mod", "star1_mass", "star1_rad", "star1_teff",
   "star2_mass", "star2_rad", "star2_teff",
   "binary_ecc", "binary_dist", "binary_rv_sys"}

StarQs == {"star1_mass", "star1_rad", "star1_teff",
           "star2_mass", "star2_rad", "star2_teff"}

\* Quantities with set_*_prior_bounds setters
Bounded_bb == QSet
Bounded_rad_interp ==
  {"Kp_ext", "H_ext_mod", "binary_inc", "binary_period", "binary_ecc", "t0"}

\* Class attributes of mcmc_fitter_bb right after construction.
ClassDefaults_bb ==
  [ lo |-> [q \in QSet |->
        CASE q = "Kp_ext" -> 2
          [] q = "H_ext_mod" -> -2
          [] q \in {"star1_mass", "star2_mass"} -> 1
          [] q \in {"star1_rad", "star2_rad"} -> 1
          [] q \in {"star1_teff", "star2_teff"} -> 5000
          [] q = "binary_inc" -> 0
          [] q = "binary_period" -> 79
          [] q = "binary_rv_sys" -> -500
          [] q = "binary_ecc" -> -1
          [] q = "binary_dist" -> 7600
          [] q = "t0" -> 51773],
    hi |-> [q \in QSet |->
        CASE q = "Kp_ext" -> 4
          [] q = "H_ext_mod" -> 2
          [] q \in {"star1_mass", "star2_mass"} -> 200
          [] q \in {"star1_rad", "star2_rad"} -> 1000
          [] q \in {"star1_teff", "star2_teff"} -> 50000
          [] q = "binary_inc" -> 180
          [] q = "binary_period" -> 81
          [] q = "binary_rv_sys" -> 500
          [] q = "binary_ecc" -> 1
          [] q = "binary_dist" -> 8200
          [] q = "t0" -> 51774],
    model |-> [q \in Toggles_bb |-> TRUE],
    dflt |-> [q \in Toggles_bb |->
        CASE q = "H_ext_mod" -> Bare(0)
          [] q \in {"star1_mass", "star2_mass"} -> Qty(100, "solMass")
          [] q \in {"star1_rad", "star2_rad"} -> Qty(100, "solRad")
          [] q \in {"star1_teff", "star2_teff"} -> Qty(8000, "K")
          [] q = "binary_ecc" -> Bare(0)
          [] q = "binary_dist" -> Bare(7971)
          [] q = "binary_rv_sys" -> Bare(0)],
    larger |-> [q \in StarQs |-> FALSE],
    H_ext_mod_alpha_sig_bound |-> -1,
    star1_teff_sig_bound |-> FALSE,
    star1_teff_bound_mu |-> 10000,
    star1_teff_bound_sigma |-> 1000,
    made |-> FALSE,
    iso_rad_min |-> 0,
    iso_rad_max |-> 0,
    dist |-> 0,
    filts_list |-> <<>>,
    filts_ext |-> <<>> ]

\* Class attributes of mcmc_fitter_rad_interp right after construction
\* (same record shape; the fields it has no counterpart of keep the values
\* above and are never read by its methods).
ClassDefaults_rad_interp ==
  [ ClassDefaults_bb EXCEPT
      !.lo = [q \in QSet |->
        CASE q = "Kp_ext" -> 2
          [] q = "H_ext_mod" -> -2
          [] q = "binary_inc" -> 0
          [] q = "binary_period" -> 79
          [] q = "binary_ecc" -> -1
          [] q = "t0" -> 51773
          [] OTHER -> ClassDefaults_bb.lo[q]],
      !.hi = [q \in QSet |->
        CASE q = "Kp_ext" -> 4
          [] q = "H_ext_mod" -> 2
          [] q = "binary_inc" -> 180
          [] q = "binary_period" -> 81
          [] q = "binary_ecc" -> 1
          [] q = "t0" -> 51774
          [] OTHER -> ClassDefaults_bb.hi[q]] ]

ClassDefaults(f) ==
  IF f = "bb" THEN ClassDefaults_bb ELSE ClassDefaults_rad_interp

----------------------------------------------------------------------------
\* theta: which quantities the code reads from theta, in order

\* mcmc_fitter_bb reads a slot for q unless q's model_* attribute is tested
\* and false; binary_inc, binary_period, binary_rv_sys, Kp_ext and t0 are
\* read unconditionally.
ReadsSlot_bb_always(c, q) == TRUE

ReadsSlot_bb(c, q) ==
  IF q \in {"H_ext_mod", "binary_ecc", "binary_dist"} \cup StarQs
  THEN c.model[q] ELSE TRUE

ReadsSlot_rad_interp(c, q) ==
  IF q = "binary_ecc" THEN c.model[q] ELSE TRUE

SlotQs(f, c) ==
  IF f = "bb"
  THEN LET T(q) == ReadsSlot_bb(c, q) IN SelectSeq(Quantities_bb, T)
  ELSE LET T(q) == ReadsSlot_rad_interp(c, q)
       IN SelectSeq(Quantities_rad_interp, T)

Abs(x) == IF x < 0 THEN -x ELSE x
Max2(a, b) == IF a >= b THEN a ELSE b

\* (lambda_Kp / lambda_H) ** ext_alpha, ** (ext_alpha + ext_alpha_unc) and
\* ** (ext_alpha - ext_alpha_unc), in units of 1e-4:
\* (2.124 / 1.633) ** 2.30, ** 2.38, ** 2.22
ExtLawRatio == 18306
ExtLawRatioHi == 18695
ExtLawRatioLo == 17925

\* (lambda_Ks / lambda_Kp) ** ext_alpha and (lambda_Ks / lambda_H) ** ext_alpha
\* in units of 1e-4: (2.18 / 2.124) ** 2.30, (2.18 / 1.633) ** 2.30
KsToKp == 10617
KsToH == 19435

----------------------------------------------------------------------------
\* mcmc_fitter_bb.lnprior

\* The value of theta_index (counted from 1 here) when the walk over theta
\* reaches the k-th quantity: one more than the number of slots read so far.
ThetaIndex_bb(c, k) ==
  1 + Cardinality({j \in 1..(k - 1) : ReadsSlot_bb(c, Quantities_bb[j])})

\* What the walk assigns to the k-th quantity: the slot at theta_index, or
\* the default when the quantity's model_* attribute is false.
Unpacked_bb(c, theta, k) ==
  IF ReadsSlot_bb(c, Quantities_bb[k])
  THEN Bare(theta[ThetaIndex_bb(c, k)])
  ELSE c.dflt[Quantities_bb[k]]

\* The unpacking at the head of lnprior (ok is false when theta is too
\* short for the walk: an IndexError).
unpack_lnprior_bb(c, theta) ==
  IF Len(theta) < ThetaIndex_bb(c, 14)
  THEN [ok |-> FALSE]
  ELSE [ok |-> TRUE,
        Kp_ext |-> Unpacked_bb(c, theta, 1),
        H_ext_mod |-> Unpacked_bb(c, theta, 2),
        star1_mass |-> Unpacked_bb(c, theta, 3),
        star1_rad |-> Unpacked_bb(c, theta, 4),
        star1_teff |-> Unpacked_bb(c, theta, 5),
        star2_mass |-> Unpacked_bb(c, theta, 6),
        star2_rad |-> Unpacked_bb(c, theta, 7),
        star2_teff |-> Unpacked_bb(c, theta, 8),
        binary_inc |-> Unpacked_bb(c, theta, 9),
        binary_period |-> Unpacked_bb(c, theta, 10),
        binary_rv_sys |-> Unpacked_bb(c, theta, 11),
        binary_ecc |-> Unpacked_bb(c, theta, 12),
        binary_dist |-> Unpacked_bb(c, theta, 13),
        t0 |-> Unpacked_bb(c, theta, 14)]

\* lo_q_prior_bound <= x <= hi_q_prior_bound
BoundCheck(c, q, x) == Within(c.lo[q], x.v, c.hi[q])

\* A stellar check: the bound check only when the quantity is modelled
StarCheck(c, q, x) == IF c.model[q] THEN BoundCheck(c, q, x) ELSE "T"

\* star1_teff is bound-checked only when modelled and not Gaussian-scored
Star1TeffCheck(c, x) ==
  IF c.model["star1_teff"] /\ ~c.star1_teff_sig_bound
  THEN BoundCheck(c, "star1_teff", x) ELSE "T"

\* check = check and (a > b), applied when the flag is set; Python's `and`
\* does not evaluate the comparison when check is already False.
Relational(flag, check, a, b) ==
  IF ~flag THEN check
  ELSE IF check = "F" THEN "F"
  ELSE Gt(a, b)

\* The H_ext_mod check is the bound check in uniform mode
\* (H_ext_mod_alpha_sig_bound == -1.0) and True otherwise.
HExtModCheck(c, x) ==
  IF c.H_ext_mod_alpha_sig_bound = -1
  THEN BoundCheck(c, "H_ext_mod", x) ELSE "T"

\* H_ext_mod_bound_oneSig, in units of 1e-4 mag
HExtModOneSig(c, Kp_ext) ==
  IF c.H_ext_mod_alpha_sig_bound = -1 THEN 10000
  ELSE LET H_ext == Kp_ext * ExtLawRatio
           bound_hi == Kp_ext * ExtLawRatioHi - H_ext
           bound_lo == H_ext - Kp_ext * ExtLawRatioLo
       IN Max2(Abs(bound_hi), Abs(bound_lo))

\* log(1 / (sqrt(2 pi) sigma)) - 0.5 x^2 / sigma^2: finite unless sigma is
\* 0, where 1/0 = inf and the quotient is -inf or nan, so the sum is nan.
GaussTerm(name, x, sigma) ==
  IF sigma = 0 THEN NaN ELSE Fin(0, {<<name, x, sigma>>})

\* The final test of the mode that applies, as the code writes it.
prior_simple_mode(c) ==
  c.H_ext_mod_alpha_sig_bound = -1 /\ ~c.star1_teff_sig_bound

\* The checks and the final test of lnprior on the unpacked values u
prior_checks_bb(c, u) ==
  IF ~u.ok THEN Raise ELSE
  LET Kp_ext_check == BoundCheck(c, "Kp_ext", u.Kp_ext)
      H_ext_mod_check == HExtModCheck(c, u.H_ext_mod)
      oneSig == HExtModOneSig(c, u.Kp_ext.v)
      \* Stellar parameters checks
      s1m0 == StarCheck(c, "star1_mass", u.star1_mass)
      s1r0 == StarCheck(c, "star1_rad", u.star1_rad)
      s1t0 == Star1TeffCheck(c, u.star1_teff)
      s2m0 == StarCheck(c, "star2_mass", u.star2_mass)
      s2r0 == StarCheck(c, "star2_rad", u.star2_rad)
      s2t0 == StarCheck(c, "star2_teff", u.star2_teff)
      \* Relational checks
      s1m == Relational(c.larger["star1_mass"], s1m0, u.star1_mass, u.star2_mass)
      s1r == Relational(c.larger["star1_rad"], s1r0, u.star1_rad, u.star2_rad)
      s1t == Relational(c.larger["star1_teff"], s1t0, u.star1_teff, u.star2_teff)
      s2m == Relational(c.larger["star2_mass"], s2m0, u.star2_mass, u.star1_mass)
      s2r == Relational(c.larger["star2_rad"], s2r0, u.star2_rad, u.star1_rad)
      s2t == Relational(c.larger["star2_teff"], s2t0, u.star2_teff, u.star1_teff)
      raised == "E" \in {s1m, s1r, s1t, s2m, s2r, s2t}
      star1_checks == s1m = "T" /\ s1r = "T" /\ s1t = "T"
      star2_checks == s2m = "T" /\ s2r = "T" /\ s2t = "T"
      \* Binary system configuration checks
      inc_check == BoundCheck(c, "binary_inc", u.binary_inc)
      period_check == BoundCheck(c, "binary_period", u.binary_period)
      rv_sys_check == BoundCheck(c, "binary_rv_sys", u.binary_rv_sys)
      ecc_check == BoundCheck(c, "binary_ecc", u.binary_ecc)
      dist_check == BoundCheck(c, "binary_dist", u.binary_dist)
      t0_check == BoundCheck(c, "t0", u.t0)
      rest == /\ Kp_ext_check = "T"
              /\ inc_check = "T" /\ period_check = "T" /\ rv_sys_check = "T"
              /\ ecc_check = "T" /\ dist_check = "T" /\ t0_check = "T"
              /\ star1_checks /\ star2_checks
      h_term == IF c.H_ext_mod_alpha_sig_bound # -1
                THEN GaussTerm("H_ext_mod", u.H_ext_mod.v, oneSig) ELSE Zero
      mu == Bare(c.star1_teff_bound_mu)
      t_raises == c.star1_teff_sig_bound /\ ~UnitsAgree(u.star1_teff, mu)
      t_term == IF c.star1_teff_sig_bound
                THEN GaussTerm("star1_teff", u.star1_teff.v - mu.v,
                               c.star1_teff_bound_sigma)
                ELSE Zero
  IN IF raised THEN Raise
     ELSE IF prior_simple_mode(c)
     THEN (IF H_ext_mod_check = "T" /\ rest THEN Zero ELSE NegInf)
     ELSE IF rest
     THEN (IF t_raises THEN Raise ELSE FAdd(FAdd(Zero, h_term), t_term))
     ELSE NegInf

lnprior_bb(c, theta) == prior_checks_bb(c, unpack_lnprior_bb(c, theta))

----------------------------------------------------------------------------
\* mcmc_fitter_rad_interp.lnprior

\* The tuple assignment from theta: 8 names when model_eccentricity, else 7
\* (binary_ecc keeps the 0. it was initialised with).
unpack_rad_interp(c, theta) ==
  IF c.model["binary_ecc"]
  THEN IF Len(theta) # 8 THEN [ok |-> FALSE]
       ELSE [ok |-> TRUE,
             Kp_ext |-> theta[1], H_ext_mod |-> theta[2],
             star1_rad |-> theta[3], star2_rad |-> theta[4],
             binary_inc |-> theta[5], binary_period |-> theta[6],
             binary_ecc |-> theta[7], t0 |-> theta[8]]
  ELSE IF Len(theta) # 7 THEN [ok |-> FALSE]
       ELSE [ok |-> TRUE,
             Kp_ext |-> theta[1], H_ext_mod |-> theta[2],
             star1_rad |-> theta[3], star2_rad |-> theta[4],
             binary_inc |-> theta[5], binary_period |-> theta[6],
             binary_ecc |-> 0, t0 |-> theta[7]]

\* rad_check without the ordering of the two radii
rad_check_unordered(c, star1_rad, star2_rad) ==
  /\ c.iso_rad_min <= star1_rad /\ star1_rad <= c.iso_rad_max
  /\ c.iso_rad_min <= star2_rad /\ star2_rad <= c.iso_rad_max

rad_check(c, star1_rad, star2_rad) ==
  /\ star1_rad >= star2_rad
  /\ c.iso_rad_min <= star1_rad /\ star1_rad <= c.iso_rad_max
  /\ c.iso_rad_min <= star2_rad /\ star2_rad <= c.iso_rad_max

lnprior_rad_interp(c, theta) ==
  LET u == unpack_rad_interp(c, theta) IN
  IF ~u.ok THEN Raise
  ELSE IF ~c.made THEN Raise     \* self.isochrone does not exist yet
  ELSE
  LET Kp_ext_check == Within(c.lo["Kp_ext"], u.Kp_ext, c.hi["Kp_ext"])
      H_ext_mod_check == Within(c.lo["H_ext_mod"], u.H_ext_mod, c.hi["H_ext_mod"])
      inc_check == Within(c.lo["binary_inc"], u.binary_inc, c.hi["binary_inc"])
      period_check ==
        Within(c.lo["binary_period"], u.binary_period, c.hi["binary_period"])
      ecc_check == Within(c.lo["binary_ecc"], u.binary_ecc, c.hi["binary_ecc"])
      t0_check == Within(c.lo["t0"], u.t0, c.hi["t0"])
  IN IF /\ Kp_ext_check = "T" /\ H_ext_mod_check = "T"
        /\ inc_check = "T" /\ period_check = "T"
        /\ ecc_check = "T" /\ t0_check = "T"
        /\ rad_check(c, u.star1_rad, u.star2_rad)
     THEN Zero ELSE NegInf

lnprior(f, c, theta) ==
  IF f = "bb" THEN lnprior_bb(c, theta) ELSE lnprior_rad_interp(c, theta)

----------------------------------------------------------------------------
\* Arrays

\* Magnitudes are counted in tenths of a magnitude, radial velocities in
\* km/s, times in days.  An observed value is [nan, v]: nan marks a
\* not-a-number entry.
Num(x) == [nan |-> FALSE, v |-> x]
NaNObs == [nan |-> TRUE, v |-> 0]

\* The value -1. that marks a failed collaborator call (tenths)
Sentinel == -10

Tenths(x) == 10 * x

\* a / b rounded to the nearest integer
RoundDiv(a, b) == (2 * a + b) \div (2 * b)

\* np.argsort: the indices that sort keys, equal keys in index order
argsort(keys) ==
  LET n == Len(keys)
      Rank(i) == Cardinality({j \in 1..n : \/ keys[j] < keys[i]
                                           \/ keys[j] = keys[i] /\ j < i}) + 1
  IN [r \in 1..n |-> CHOOSE i \in 1..n : Rank(i) = r]

\* a[inds]; CanTake is false where numpy raises IndexError
CanTake(a, inds) == \A r \in DOMAIN inds : inds[r] \in DOMAIN a
Take(a, inds) == [r \in 1..Len(inds) |-> a[inds[r]]]

\* np.where(a == x)
where(a, x) ==
  LET I == {i \in DOMAIN a : a[i] = x}
  IN [r \in 1..Cardinality(I) |->
        CHOOSE i \in I : Cardinality({j \in I : j < i}) = r - 1]

\* np.unique
unique(a) ==
  LET S == {a[i] : i \in DOMAIN a}
  IN [r \in 1..Cardinality(S) |->
        CHOOSE x \in S : Cardinality({y \in S : y < x}) = r - 1]

\* One band of phased_obs: phased holds phase * period (the phase itself is
\* this over the period, which orders the same way), inds the argsort,
\* model_times the phased times in sorted order.
phased_obs_band(MJDs, binary_period, t0) ==
  LET phased == [i \in 1..Len(MJDs) |-> (MJDs[i] - t0) % binary_period]
      inds == argsort(phased)
  IN [phased |-> phased, inds |-> inds, model_times |-> Take(phased, inds)]

\* phased_obs over a tuple of bands
phased_obs(observation_times, binary_period, t0) ==
  [b \in DOMAIN observation_times |->
     phased_obs_band(observation_times[b], binary_period, t0)]

\* Times as floating-point numbers where rounding shows: a whole number of
\* days n (e = 0), or one of the two numbers of magnitude 2^-70 next to
\* zero (n = 0, e = 1 or -1), which is less than half a unit in the last
\* place of every whole number of days.
Whole(n) == [n |-> n, e |-> 0]
Tiny(e) == [n |-> 0, e |-> e]

\* The order of two such numbers is the order of their keys
Key(a) == 3 * a.n + a.e

\* a - t0 for a whole t0, rounded to nearest
subtract(a, t0) ==
  IF a.n - t0 # 0 THEN Whole(a.n - t0) ELSE Tiny(a.e)

\* a % b of numpy for a positive whole b: fmod(a, b), to which b is added
\* when it is not zero and of the other sign; the sum is rounded to nearest,
\* so -2^-70 + b is b.
remainder(a, b) ==
  IF a.e = 0 THEN Whole(a.n % b)
  ELSE IF a.e > 0 THEN a
  ELSE Whole(b)

\* One band of phased_obs on such times.  phased holds phase * period, the
\* phase being phased / period: 1.0 when phased is the period.
phased_obs_band_float(MJDs, binary_period, t0) ==
  [phased |-> [i \in 1..Len(MJDs) |->
                 remainder(subtract(MJDs[i], t0), binary_period)],
   inds |-> argsort([i \in 1..Len(MJDs) |->
                 Key(remainder(subtract(MJDs[i], t0), binary_period))]),
   model_times |->
     Take([i \in 1..Len(MJDs) |->
             remainder(subtract(MJDs[i], t0), binary_period)],
          argsort([i \in 1..Len(MJDs) |->
             Key(remainder(subtract(MJDs[i], t0), binary_period))]))]

phased_obs_float(observation_times, binary_period, t0) ==
  [b \in DOMAIN observation_times |->
     phased_obs_band_float(observation_times[b], binary_period, t0)]

\* The phasing inside the binary forward model (binary_star_mesh lays it out
\* as lc_calc.binary_star_lc does): when star 2 overflows and star 1 does
\* not, the function calls itself with the stars exchanged and
\* t0 - period / 2, and phases the observation times against that t0.
model_phasing(star2_overflow, observation_times, binary_period, t0) ==
  IF star2_overflow
  THEN phased_obs_float(observation_times, binary_period,
                        t0 - binary_period \div 2)
  ELSE phased_obs_float(observation_times, binary_period, t0)

\* 5 log10(target_dist / 10 pc), the distance modulus (tenths of a mag)
DistModulus(target_dist) ==
  CASE target_dist = 8000 -> 145

\* dist_ext_mag_calc on one band
dist_ext_mag_calc(mags, target_dist, ext) ==
  [i \in 1..Len(mags) |-> mags[i] + DistModulus(target_dist) + ext]

\* flux_adj on one band: what is added to every binary magnitude,
\*   -2.5 log10((10^(-ref_pri/2.5) + 10^(-ref_sec/2.5))
\*              / (10^(-pri/2.5) + 10^(-sec/2.5))).
\* With the two stars alike it is ref - mag; with one reference at the
\* failure value (by far the brighter) it is that value - mag + 2.5 log10 2.
FluxAdjOffset(mag_pri, mag_ref_pri, mag_sec, mag_ref_sec) ==
  CASE mag_pri = mag_sec /\ mag_ref_pri = mag_ref_sec -> mag_ref_pri - mag_pri
    [] mag_pri = mag_sec /\ mag_ref_pri # mag_ref_sec
         /\ Sentinel \in {mag_ref_pri, mag_ref_sec} -> Sentinel - mag_pri + 8

flux_adj(mag_pri, mag_ref_pri, mag_sec, mag_ref_sec, mags_bin) ==
  [i \in 1..Len(mags_bin) |->
     mags_bin[i] + FluxAdjOffset(mag_pri[1], mag_ref_pri, mag_sec[1], mag_ref_sec)]

\* The sum of ((obs - model) / err)^2 over arrays of one length, in
\* eighths (errors are 0, 1 or 2): nan when a term is nan (a nan
\* observation, or 0 / 0), else +inf when an error is 0, else finite.
RECURSIVE SumTerms(_, _, _, _)
SumTerms(obs, errs, model, i) ==
  IF i = 0 THEN 0
  ELSE SumTerms(obs, errs, model, i - 1)
       + (8 * (obs[i].v - model[i]) * (obs[i].v - model[i]))
           \div (errs[i] * errs[i])

sum_sq(obs, errs, model) ==
  IF \E i \in DOMAIN obs : obs[i].nan \/ (errs[i] = 0 /\ obs[i].v = model[i])
  THEN NaN
  ELSE IF \E i \in DOMAIN obs : errs[i] = 0 THEN PosInf
  ELSE Fin(SumTerms(obs, errs, model, Len(obs)), {})

\* numpy broadcasting of an array to length n: an array of one entry
\* stands for every index
Broadcast(a, n) == IF Len(a) = n THEN a ELSE [i \in 1..n |-> a[1]]

\* np.sum((obs - model)**2. / errs**2.): obs and errs have one length;
\* raises when obs and model do not broadcast
chi_square(obs, errs, model) ==
  LET n == IF Len(obs) = 1 THEN Len(model) ELSE Len(obs)
  IN IF Len(model) \notin {1, n}
     THEN Raise
     ELSE sum_sq(Broadcast(obs, n), Broadcast(errs, n), Broadcast(model, n))

\* np.where(np.logical_not(np.isnan(obs)))
nan_filt(obs) ==
  LET I == {i \in DOMAIN obs : ~obs[i].nan}
  IN [r \in 1..Cardinality(I) |->
        CHOOSE i \in I : Cardinality({j \in I : j < i}) = r - 1]

\* np.sum((obs[nan_filt] - model[nan_filt])**2. / errs[nan_filt]**2.):
\* raises when an index of nan_filt is not one of model
chi_square_not_nan(obs, errs, model) ==
  IF ~CanTake(model, nan_filt(obs)) THEN Raise
  ELSE sum_sq(Take(obs, nan_filt(obs)), Take(errs, nan_filt(obs)),
              Take(model, nan_filt(obs)))

\* -0.5 * x
NegHalf(x) ==
  CASE x.k = "fin" -> Fin(-(x.n \div 2), x.g)
    [] x.k = "pinf" -> NegInf
    [] x.k = "ninf" -> PosInf
    [] OTHER -> x

----------------------------------------------------------------------------
\* Collaborators outside the fitters: the stellar interpolation and the
\* light-curve calculators.  What a call answers is chosen by the
\* environment (orc): success, or failure signalled by the value -1.

\* A step of a call: the collaborator invoked and how it answered
Step(fn, res) == [fn |-> fn, res |-> res]

\* isochrone.rad_interp / bb_params_obj.calc_stellar_params.  A failed call
\* answers either with structures of the usual shape filled with the
\* failure value ("full") or with a shorter one ("short") that the caller's
\* tuple assignment cannot take apart.
stellar_params(res) ==
  [mag_Kp |-> IF res = "ok" THEN 136 ELSE Sentinel,
   mag_H |-> IF res = "ok" THEN 154 ELSE Sentinel]

\* lc_calc.single_star_lc: one magnitude per band at 10 pc, delta tenths
\* off the isochrone's
single_star_lc(res, delta) ==
  IF res = "ok"
  THEN [Kp |-> <<delta - 30>>, H |-> <<delta - 30>>]
  ELSE [Kp |-> <<Sentinel>>, H |-> <<Sentinel>>]

\* lc_calc.binary_star_lc / lc_calc_wRV.binary_star_lc: the observables at
\* the phased times of each band in phase order (as binary_star_mesh lays
\* them out): a magnitude that grows with the phased time, and radial
\* velocities of opposite sign.
binary_star_lc(res, observation_times, binary_period, t0) ==
  IF res # "ok"
  THEN [Kp |-> <<Sentinel>>, H |-> <<Sentinel>>,
        RVs_pri |-> <<Sentinel>>, RVs_sec |-> <<Sentinel>>]
  ELSE LET ph == phased_obs(observation_times, binary_period, t0)
           kp_t == ph[1].model_times
           h_t == ph[2].model_times
           rv_t == IF Len(ph) >= 3 THEN ph[3].model_times ELSE <<>>
       IN [Kp |-> [i \in 1..Len(kp_t) |-> kp_t[i] - 30],
           H |-> [i \in 1..Len(h_t) |-> h_t[i] - 30],
           RVs_pri |-> [i \in 1..Len(rv_t) |-> rv_t[i]],
           RVs_sec |-> [i \in 1..Len(rv_t) |-> -rv_t[i]]]

----------------------------------------------------------------------------
\* The forward model

\* What a calculate_model_* call gives back: res is "ok", "err" (the
\* err_out arrays) or "raise"; calls lists the collaborator calls it made.
ModelOut(res, Kp, H, RVs_pri, RVs_sec, calls) ==
  [res |-> res, Kp |-> Kp, H |-> H,
   RVs_pri |-> RVs_pri, RVs_sec |-> RVs_sec, calls |-> calls]

NoModel == ModelOut("none", <<>>, <<>>, <<>>, <<>>, <<>>)

ModelRaise(calls) == ModelOut("raise", <<>>, <<>>, <<>>, <<>>, calls)

\* err_out of calculate_model_lc: two arrays
err_out_lc(calls) ==
  ModelOut("err", <<Sentinel>>, <<Sentinel>>, <<>>, <<>>, calls)

\* err_out of calculate_model_obs: four arrays
err_out_obs(calls) ==
  ModelOut("err", <<Sentinel>>, <<Sentinel>>, <<Sentinel>>, <<Sentinel>>, calls)

\* The collaborator calls of calculate_model_lc in the order it makes
\* them; a call that ends early has made a prefix of these.
steps_lc(orc) ==
  <<Step("rad_interp", orc.interp1), Step("rad_interp", orc.interp2),
    Step("single_star_lc", orc.single1), Step("single_star_lc", orc.single2),
    Step("dist_ext_mag_calc", "ok"), Step("dist_ext_mag_calc", "ok"),
    Step("binary_star_lc", orc.binary),
    Step("dist_ext_mag_calc", "ok"), Step("flux_adj", "ok")>>

Made(orc, n) == SubSeq(steps_lc(orc), 1, n)

\* calculate_model_lc once the binary magnitudes bin are there: the failure
\* test, then distance and extinction, flux adjustment, extinction
\* difference.
model_lc_binary(c, u, orc, s1, s2, bin) ==
  IF bin.Kp[1] = Sentinel \/ bin.H[1] = Sentinel THEN err_out_lc(Made(orc, 7))
  ELSE
  ModelOut("ok",
    [i \in 1..Len(bin.Kp) |->
       flux_adj(dist_ext_mag_calc(s1.Kp, c.dist, c.filts_ext["kp"]),
                stellar_params(orc.interp1).mag_Kp,
                dist_ext_mag_calc(s2.Kp, c.dist, c.filts_ext["kp"]),
                stellar_params(orc.interp2).mag_Kp,
                dist_ext_mag_calc(bin.Kp, c.dist, c.filts_ext["kp"]))[i]
       \* Kp_ext_adj
       + (Tenths(u.Kp_ext) - c.filts_ext["kp"])],
    [i \in 1..Len(bin.H) |->
       flux_adj(dist_ext_mag_calc(s1.H, c.dist, c.filts_ext["h"]),
                stellar_params(orc.interp1).mag_H,
                dist_ext_mag_calc(s2.H, c.dist, c.filts_ext["h"]),
                stellar_params(orc.interp2).mag_H,
                dist_ext_mag_calc(bin.H, c.dist, c.filts_ext["h"]))[i]
       \* H_ext_adj
       + (RoundDiv(u.Kp_ext * ExtLawRatio, 1000) - c.filts_ext["h"]
          + Tenths(u.H_ext_mod))],
    <<>>, <<>>, Made(orc, 9))

\* calculate_model_lc from the interpolation on, u being the unpacked theta
\* and s1, s2 the single-star magnitudes (s2 is computed only when s1 is
\* not a failure).  No result of rad_interp is tested: a failed
\* interpolation stops the call only when its answer cannot be taken apart.
model_lc_unpacked(c, dat, u, orc, s1, s2) ==
  IF ~u.ok THEN ModelRaise(<<>>)
  ELSE IF ~c.made THEN ModelRaise(<<>>)     \* self.Kp_ext does not exist
  ELSE IF "short" \in {orc.interp1, orc.interp2} THEN ModelRaise(Made(orc, 2))
  ELSE IF s1.Kp[1] = Sentinel \/ s1.H[1] = Sentinel THEN err_out_lc(Made(orc, 3))
  ELSE IF s2.Kp[1] = Sentinel \/ s2.H[1] = Sentinel THEN err_out_lc(Made(orc, 4))
  ELSE IF ~dat.has_times THEN ModelRaise(Made(orc, 6))  \* self.observation_times
  ELSE model_lc_binary(c, u, orc, s1, s2,
         binary_star_lc(orc.binary, dat.observation_times,
                        u.binary_period, u.t0))

\* The tuple assignment from theta at the head of calculate_model_lc
unpack_model_lc(c, theta) ==
  IF c.model["binary_ecc"]
  THEN IF Len(theta) # 8 THEN [ok |-> FALSE]
       ELSE [ok |-> TRUE,
             Kp_ext |-> theta[1], H_ext_mod |-> theta[2],
             star1_rad |-> theta[3], star2_rad |-> theta[4],
             binary_inc |-> theta[5], binary_period |-> theta[6],
             binary_ecc |-> theta[7], t0 |-> theta[8]]
  ELSE IF Len(theta) # 7 THEN [ok |-> FALSE]
       ELSE [ok |-> TRUE,
             Kp_ext |-> theta[1], H_ext_mod |-> theta[2],
             star1_rad |-> theta[3], star2_rad |-> theta[4],
             binary_inc |-> theta[5], binary_period |-> theta[6],
             binary_ecc |-> 0, t0 |-> theta[7]]

\* mcmc_fitter_rad_interp.calculate_model_lc
calculate_model_lc(c, dat, theta, orc) ==
  model_lc_unpacked(c, dat, unpack_model_lc(c, theta), orc,
                    single_star_lc(orc.single1, orc.delta),
                    single_star_lc(orc.single2, orc.delta))

\* The unit calculate_model_obs and lnlike multiply the slot of q by ("" for
\* the quantities they leave bare)
UnitOf_bb(q) ==
  CASE q \in {"star1_mass", "star2_mass"} -> "solMass"
    [] q \in {"star1_rad", "star2_rad"} -> "solRad"
    [] q \in {"star1_teff", "star2_teff"} -> "K"
    [] q = "binary_inc" -> "deg"
    [] q = "binary_period" -> "d"
    [] q = "binary_rv_sys" -> "km/s"
    [] q = "binary_dist" -> "pc"
    [] OTHER -> ""

\* The walk over theta at the head of calculate_model_obs: which quantities it
\* reads a slot for, the value of theta_index at the k-th quantity, and what
\* it assigns (a slot multiplied by the quantity's unit, or the default).
ReadsSlot_model_obs(c, q) ==
  IF q \in {"H_ext_mod", "binary_ecc", "binary_dist"} \cup StarQs
  THEN c.model[q] ELSE TRUE

ThetaIndex_model_obs(c, k) ==
  1 + Cardinality({j \in 1..(k - 1) : ReadsSlot_model_obs(c, Quantities_bb[j])})

Unpacked_model_obs(c, theta, k) ==
  IF ReadsSlot_model_obs(c, Quantities_bb[k])
  THEN Qty(theta[ThetaIndex_model_obs(c, k)], UnitOf_bb(Quantities_bb[k]))
  ELSE c.dflt[Quantities_bb[k]]

unpack_model_bb(c, theta) ==
  IF Len(theta) < ThetaIndex_model_obs(c, 14)
  THEN [ok |-> FALSE]
  ELSE [ok |-> TRUE,
        Kp_ext |-> Unpacked_model_obs(c, theta, 1),
        H_ext_mod |-> Unpacked_model_obs(c, theta, 2),
        star1_mass |-> Unpacked_model_obs(c, theta, 3),
        star1_rad |-> Unpacked_model_obs(c, theta, 4),
        star1_teff |-> Unpacked_model_obs(c, theta, 5),
        star2_mass |-> Unpacked_model_obs(c, theta, 6),
        star2_rad |-> Unpacked_model_obs(c, theta, 7),
        star2_teff |-> Unpacked_model_obs(c, theta, 8),
        binary_inc |-> Unpacked_model_obs(c, theta, 9),
        binary_period |-> Unpacked_model_obs(c, theta, 10),
        binary_rv_sys |-> Unpacked_model_obs(c, theta, 11),
        binary_ecc |-> Unpacked_model_obs(c, theta, 12),
        binary_dist |-> Unpacked_model_obs(c, theta, 13),
        t0 |-> Unpacked_model_obs(c, theta, 14)]

\* 5 log10(a / b) (tenths of a magnitude)
Log10Ratio5(a, b) ==
  CASE a = b -> 0

\* The collaborator calls of calculate_model_obs in the order it makes them
steps_obs(orc) ==
  <<Step("calc_stellar_params", orc.interp1),
    Step("calc_stellar_params", orc.interp2),
    Step("binary_star_lc", orc.binary),
    Step("dist_ext_mag_calc", "ok")>>

Made_obs(orc, n) == SubSeq(steps_obs(orc), 1, n)

\* The tail of calculate_model_obs: distance and extinction applied to the
\* binary observables bin, extinction and distance-modulus differences and
\* the systemic velocity added.
model_obs_adjusted(c, u, orc, bin) ==
  ModelOut("ok",
    [i \in 1..Len(bin.Kp) |->
       dist_ext_mag_calc(bin.Kp, c.dist, c.filts_ext["kp"])[i]
       \* Kp_ext_adj
       + (Tenths(u.Kp_ext.v) - c.filts_ext["kp"])
       \* dist_mod_mag_adj
       + Log10Ratio5(u.binary_dist.v, c.dist)],
    [i \in 1..Len(bin.H) |->
       dist_ext_mag_calc(bin.H, c.dist, c.filts_ext["h"])[i]
       \* H_ext_adj
       + (RoundDiv(u.Kp_ext.v * ExtLawRatio, 1000) - c.filts_ext["h"]
          + Tenths(u.H_ext_mod.v))
       + Log10Ratio5(u.binary_dist.v, c.dist)],
    [i \in 1..Len(bin.RVs_pri) |-> bin.RVs_pri[i] + u.binary_rv_sys.v],
    [i \in 1..Len(bin.RVs_sec) |-> bin.RVs_sec[i] + u.binary_rv_sys.v],
    Made_obs(orc, 4))

\* calculate_model_obs without its test of the binary observables
model_obs_binary_unchecked(c, u, orc, bin) == model_obs_adjusted(c, u, orc, bin)

\* calculate_model_obs once the binary observables bin are there: the
\* failure test, then the adjustments
model_obs_binary(c, u, orc, bin) ==
  IF bin.Kp[1] = Sentinel \/ bin.H[1] = Sentinel
  THEN err_out_obs(Made_obs(orc, 3))
  ELSE model_obs_adjusted(c, u, orc, bin)

\* The filter objects calculate_model_obs looks self.filts_ext up by: the
\* module's own kp_filt and h_filt, whatever filts_list was configured
Lookups_model_obs == {"kp", "h"}

\* calculate_model_obs on the unpacked theta u.  self.filts_ext[kp_filt] and
\* self.filts_ext[h_filt] raise KeyError for a key make_bb_params did not
\* store.  np.log10(binary_dist /
\* self.dist.to(u.pc).value) is refused for a binary_dist in pc (the
\* modelled distance); a bare default_dist goes through.  No result of
\* calc_stellar_params is tested.
model_obs_unpacked(c, dat, u, orc) ==
  IF ~u.ok THEN ModelRaise(<<>>)
  ELSE IF ~c.made THEN ModelRaise(<<>>)     \* self.num_filts does not exist
  ELSE IF ~(Lookups_model_obs \subseteq DOMAIN c.filts_ext)
  THEN ModelRaise(<<>>)                     \* KeyError
  ELSE IF u.binary_dist.u # "" THEN ModelRaise(<<>>)
  ELSE IF "short" \in {orc.interp1, orc.interp2}
  THEN ModelRaise(Made_obs(orc, 2))
  ELSE IF ~dat.has_times THEN ModelRaise(Made_obs(orc, 2))
  ELSE model_obs_binary(c, u, orc,
         binary_star_lc(orc.binary, dat.observation_times,
                        u.binary_period.v, u.t0.v))

\* mcmc_fitter_bb.calculate_model_obs
calculate_model_obs(c, dat, theta, orc) ==
  model_obs_unpacked(c, dat, unpack_model_bb(c, theta), orc)

calculate_model(f, c, dat, theta, orc) ==
  IF f = "bb" THEN calculate_model_obs(c, dat, theta, orc)
  ELSE calculate_model_lc(c, dat, theta, orc)

----------------------------------------------------------------------------
\* lnlike and lnprob

\* What a call gives back to the sampler: the value returned (ret), the
\* prior and likelihood it computed (NoFloat when not computed), the model
\* observables, and the steps it took.
Result(ret, lp, ll, model, calls) ==
  [ret |-> ret, lp |-> lp, ll |-> ll, model |-> model, calls |-> calls]

\* The sums of lnlike over the phase-sorted observations: kp, h, rv_pri
\* and rv_sec are [obs, err] per band, m the model.
\* (mcmc_fitter_rad_interp sums the two magnitude bands only.)
likelihood_sums(kp, h, rv_pri, rv_sec, m) ==
  NegHalf(FAdd(FAdd(chi_square(kp.obs, kp.err, m.Kp),
                    chi_square(h.obs, h.err, m.H)),
               FAdd(chi_square_not_nan(rv_pri.obs, rv_pri.err, m.RVs_pri),
                    chi_square_not_nan(rv_sec.obs, rv_sec.err, m.RVs_sec))))

\* obs[inds] and errs[inds]
Sorted(obs, errs, inds) == [obs |-> Take(obs, inds), err |-> Take(errs, inds)]

NoBand == [obs |-> <<>>, err |-> <<>>]

LikeResult(ll, m, calls) == Result(ll, NoFloat, ll, m, calls)

\* lnlike of mcmc_fitter_rad_interp after the model m is computed, ph
\* being what phased_obs gives (called only past the failure test)
lnlike_of_model_lc(dat, u, m, ph) ==
  IF ~u.ok THEN LikeResult(Raise, NoModel, <<>>)
  ELSE IF m.res = "raise" THEN LikeResult(Raise, m, m.calls)
  ELSE IF m.Kp[1] = Sentinel \/ m.H[1] = Sentinel
  THEN LikeResult(NegInf, m, m.calls)
  ELSE IF ~dat.has_obs \/ ~CanTake(dat.kp_obs_mags, ph[1].inds)
            \/ ~CanTake(dat.h_obs_mags, ph[2].inds)
  THEN LikeResult(Raise, m, Append(m.calls, Step("phased_obs", "ok")))
  ELSE LikeResult(
         likelihood_sums(
           Sorted(dat.kp_obs_mags, dat.kp_obs_mag_errors, ph[1].inds),
           Sorted(dat.h_obs_mags, dat.h_obs_mag_errors, ph[2].inds),
           NoBand, NoBand, m),
         m,
         m.calls \o <<Step("phased_obs", "ok"), Step("chi_square", "ok")>>)

\* The tuple assignment from theta at the head of mcmc_fitter_rad_interp.lnlike
unpack_lnlike_rad_interp(c, theta) ==
  IF c.model["binary_ecc"]
  THEN IF Len(theta) # 8 THEN [ok |-> FALSE]
       ELSE [ok |-> TRUE,
             Kp_ext |-> theta[1], H_ext_mod |-> theta[2],
             star1_rad |-> theta[3], star2_rad |-> theta[4],
             binary_inc |-> theta[5], binary_period |-> theta[6],
             binary_ecc |-> theta[7], t0 |-> theta[8]]
  ELSE IF Len(theta) # 7 THEN [ok |-> FALSE]
       ELSE [ok |-> TRUE,
             Kp_ext |-> theta[1], H_ext_mod |-> theta[2],
             star1_rad |-> theta[3], star2_rad |-> theta[4],
             binary_inc |-> theta[5], binary_period |-> theta[6],
             binary_ecc |-> 0, t0 |-> theta[7]]

\* mcmc_fitter_rad_interp.lnlike
lnlike_rad_interp(c, dat, theta, orc) ==
  lnlike_of_model_lc(dat, unpack_lnlike_rad_interp(c, theta),
    calculate_model_lc(c, dat, theta, orc),
    phased_obs(dat.observation_times,
               unpack_lnlike_rad_interp(c, theta).binary_period,
               unpack_lnlike_rad_interp(c, theta).t0))

\* The walk over theta at the head of mcmc_fitter_bb.lnlike: which quantities it
\* reads a slot for, the value of theta_index at the k-th quantity, and what
\* it assigns (a slot multiplied by the quantity's unit, or the default).
ReadsSlot_lnlike_bb_rv_toggle(c, q) ==
  IF q \in {"H_ext_mod", "binary_ecc", "binary_dist", "binary_rv_sys"}
          \cup StarQs
  THEN c.model[q] ELSE TRUE

ReadsSlot_lnlike_bb(c, q) ==
  IF q \in {"H_ext_mod", "binary_ecc", "binary_dist"} \cup StarQs
  THEN c.model[q] ELSE TRUE

ThetaIndex_lnlike_bb(c, k) ==
  1 + Cardinality({j \in 1..(k - 1) : ReadsSlot_lnlike_bb(c, Quantities_bb[j])})

Unpacked_lnlike_bb(c, theta, k) ==
  IF ReadsSlot_lnlike_bb(c, Quantities_bb[k])
  THEN Qty(theta[ThetaIndex_lnlike_bb(c, k)], UnitOf_bb(Quantities_bb[k]))
  ELSE c.dflt[Quantities_bb[k]]

unpack_lnlike_bb(c, theta) ==
  IF Len(theta) < ThetaIndex_lnlike_bb(c, 14)
  THEN [ok |-> FALSE]
  ELSE [ok |-> TRUE,
        Kp_ext |-> Unpacked_lnlike_bb(c, theta, 1),
        H_ext_mod |-> Unpacked_lnlike_bb(c, theta, 2),
        star1_mass |-> Unpacked_lnlike_bb(c, theta, 3),
        star1_rad |-> Unpacked_lnlike_bb(c, theta, 4),
        star1_teff |-> Unpacked_lnlike_bb(c, theta, 5),
        star2_mass |-> Unpacked_lnlike_bb(c, theta, 6),
        star2_rad |-> Unpacked_lnlike_bb(c, theta, 7),
        star2_teff |-> Unpacked_lnlike_bb(c, theta, 8),
        binary_inc |-> Unpacked_lnlike_bb(c, theta, 9),
        binary_period |-> Unpacked_lnlike_bb(c, theta, 10),
        binary_rv_sys |-> Unpacked_lnlike_bb(c, theta, 11),
        binary_ecc |-> Unpacked_lnlike_bb(c, theta, 12),
        binary_dist |-> Unpacked_lnlike_bb(c, theta, 13),
        t0 |-> Unpacked_lnlike_bb(c, theta, 14)]

\* lnlike of mcmc_fitter_bb after the model m is computed.  The radial
\* velocities of both stars are indexed by the phase order of the unique
\* velocity times; len(pri_filt) > 0 and len(sec_filt) > 0 hold of every
\* np.where result, so both sums are always taken.
lnlike_of_model_obs(dat, u, m, ph) ==
  IF ~u.ok THEN LikeResult(Raise, NoModel, <<>>)
  ELSE IF m.res = "raise" THEN LikeResult(Raise, m, m.calls)
  ELSE IF m.Kp[1] = Sentinel \/ m.H[1] = Sentinel
  THEN LikeResult(NegInf, m, m.calls)
  ELSE IF ~dat.has_obs \/ ~CanTake(dat.kp_obs_mags, ph[1].inds)
            \/ ~CanTake(dat.h_obs_mags, ph[2].inds)
            \/ ~CanTake(dat.obs_rv_pri, ph[3].inds)
            \/ ~CanTake(dat.obs_rv_sec, ph[3].inds)
  THEN LikeResult(Raise, m, Append(m.calls, Step("phased_obs", "ok")))
  ELSE LikeResult(
         likelihood_sums(
           Sorted(dat.kp_obs_mags, dat.kp_obs_mag_errors, ph[1].inds),
           Sorted(dat.h_obs_mags, dat.h_obs_mag_errors, ph[2].inds),
           Sorted(dat.obs_rv_pri, dat.obs_rv_pri_errors, ph[3].inds),
           Sorted(dat.obs_rv_sec, dat.obs_rv_sec_errors, ph[3].inds),
           m),
         m,
         m.calls \o <<Step("phased_obs", "ok"), Step("chi_square", "ok")>>)

\* mcmc_fitter_bb.lnlike
lnlike_bb(c, dat, theta, orc) ==
  lnlike_of_model_obs(dat, unpack_lnlike_bb(c, theta),
    calculate_model_obs(c, dat, theta, orc),
    phased_obs(dat.observation_times,
               unpack_lnlike_bb(c, theta).binary_period.v,
               unpack_lnlike_bb(c, theta).t0.v))

lnlike(f, c, dat, theta, orc) ==
  IF f = "bb" THEN lnlike_bb(c, dat, theta, orc)
  ELSE lnlike_rad_interp(c, dat, theta, orc)

\* The steps of a lnprob call that went on to lnlike
ProbSteps(l) == <<Step("lnprior", "ok"), Step("lnlike", "ok")>> \o l.calls

\* lnprob of mcmc_fitter_rad_interp given the prior lp; l is what lnlike
\* gives, called only when lp is finite.  The likelihood is added as it
\* comes.
posterior_rad_interp(lp, l) ==
  IF lp = Raise THEN Result(Raise, lp, NoFloat, NoModel, <<Step("lnprior", "ok")>>)
  ELSE IF ~isfinite(lp)
  THEN Result(NegInf, lp, NoFloat, NoModel, <<Step("lnprior", "ok")>>)
  ELSE IF l.ret = Raise THEN Result(Raise, lp, Raise, l.model, ProbSteps(l))
  ELSE Result(FAdd(lp, l.ret), lp, l.ret, l.model, ProbSteps(l))

\* mcmc_fitter_rad_interp.lnprob
lnprob_rad_interp(c, dat, theta, orc) ==
  posterior_rad_interp(lnprior_rad_interp(c, theta),
                       lnlike_rad_interp(c, dat, theta, orc))

\* lnprob of mcmc_fitter_bb with no test of the prior
posterior_bb_ungated(lp, l) ==
  IF l.ret = Raise THEN Result(Raise, lp, Raise, l.model, ProbSteps(l))
  ELSE IF ~isfinite(l.ret) THEN Result(NegInf, lp, l.ret, l.model, ProbSteps(l))
  ELSE Result(FAdd(lp, l.ret), lp, l.ret, l.model, ProbSteps(l))

\* lnprob of mcmc_fitter_bb given the prior lp; l is what lnlike gives,
\* called only when lp is finite.  A likelihood that is not finite gives
\* -inf.
posterior_bb(lp, l) ==
  IF lp = Raise THEN Result(Raise, lp, NoFloat, NoModel, <<Step("lnprior", "ok")>>)
  ELSE IF ~isfinite(lp)
  THEN Result(NegInf, lp, NoFloat, NoModel, <<Step("lnprior", "ok")>>)
  ELSE IF l.ret = Raise THEN Result(Raise, lp, Raise, l.model, ProbSteps(l))
  ELSE IF ~isfinite(l.ret) THEN Result(NegInf, lp, l.ret, l.model, ProbSteps(l))
  ELSE Result(FAdd(lp, l.ret), lp, l.ret, l.model, ProbSteps(l))

\* mcmc_fitter_bb.lnprob
lnprob_bb(c, dat, theta, orc) ==
  posterior_bb(lnprior_bb(c, theta), lnlike_bb(c, dat, theta, orc))

lnprob(f, c, dat, theta, orc) ==
  IF f = "bb" THEN lnprob_bb(c, dat, theta, orc)
  ELSE lnprob_rad_interp(c, dat, theta, orc)

----------------------------------------------------------------------------
\* Inputs: the values a sampler proposes and the arguments of setup calls

\* A proposal inside every class-default bound and inside the isochrone's
\* radius range, the two stars alike.
BaseV(q) ==
  CASE q = "Kp_ext" -> 3
    [] q = "H_ext_mod" -> 0
    [] q \in {"star1_mass", "star2_mass"} -> 100
    [] q \in {"star1_rad", "star2_rad"} -> 100
    [] q \in {"star1_teff", "star2_teff"} -> 8000
    [] q = "binary_inc" -> 90
    [] q = "binary_period" -> 80
    [] q = "binary_rv_sys" -> 0
    [] q = "binary_ecc" -> 0
    [] q = "binary_dist" -> 8000
    [] q = "t0" -> 51773

\* Other proposals for one quantity: below the default bound, another value
\* inside it (an endpoint where there is room), above it.
AltV(q) ==
  CASE q = "Kp_ext" -> {0, 4, 5}
    [] q = "H_ext_mod" -> {-3, 2, 3}
    [] q \in {"star1_mass", "star2_mass"} -> {0, 150, 201}
    [] q \in {"star1_rad", "star2_rad"} -> {0, 150, 1001}
    [] q \in {"star1_teff", "star2_teff"} -> {4000, 9000, 60000}
    [] q = "binary_inc" -> {-1, 180, 200}
    [] q = "binary_period" -> {78, 81, 82}
    [] q = "binary_rv_sys" -> {-501, 500, 501}
    [] q = "binary_ecc" -> {-2, 1, 2}
    [] q = "binary_dist" -> {6000, 8200, 10000}
    [] q = "t0" -> {51772, 51774, 51775}

\* The (lo_bound, hi_bound) a set_*_prior_bounds call is made with
AltBounds(q) ==
  CASE q = "Kp_ext" -> <<0, 5>>
    [] q = "H_ext_mod" -> <<1, 3>>
    [] q \in {"star1_mass", "star2_mass"} -> <<120, 300>>
    [] q \in {"star1_rad", "star2_rad"} -> <<120, 2000>>
    [] q \in {"star1_teff", "star2_teff"} -> <<8500, 70000>>
    [] q = "binary_inc" -> <<0, 360>>
    [] q = "binary_period" -> <<81, 90>>
    [] q = "binary_rv_sys" -> <<100, 600>>
    [] q = "binary_ecc" -> <<1, 3>>
    [] q = "binary_dist" -> <<8100, 12000>>
    [] q = "t0" -> <<51774, 51780>>

\* The thetas a sampler proposes to a fitter configured as c: one slot per
\* quantity the code reads, the base proposal with at most one slot changed.
BaseTheta(f, c) ==
  LET qs == SlotQs(f, c) IN [i \in 1..Len(qs) |-> BaseV(qs[i])]

Thetas(f, c) ==
  LET qs == SlotQs(f, c)
      b == BaseTheta(f, c)
  IN {b} \cup {[b EXCEPT ![i] = x] : <<i, x>> \in
                 UNION {{<<j, y>> : y \in AltV(qs[j])} : j \in 1..Len(qs)}}

\* The slot of quantity q in a theta for configuration c (0: none)
SlotOf(f, c, q) ==
  LET qs == SlotQs(f, c)
      S == {i \in 1..Len(qs) : qs[i] = q}
  IN IF S = {} THEN 0 ELSE CHOOSE i \in S : TRUE

\* The thetas the forward model and lnlike are called with: the base
\* proposal and the ones that differ from it in the period or in t0
ModelThetas(f, c) ==
  LET qs == SlotQs(f, c)
      b == BaseTheta(f, c)
  IN {t \in Thetas(f, c) :
        \A i \in 1..Len(qs) :
          t[i] # b[i] => qs[i] \in {"binary_period", "t0"}}

\* How the collaborators answer during one call
Orc(interp1, interp2, single1, single2, delta, binary) ==
  [interp1 |-> interp1, interp2 |-> interp2,
   single1 |-> single1, single2 |-> single2,
   delta |-> delta, binary |-> binary]

Oracles ==
  {Orc("ok", "ok", "ok", "ok", 0, "ok"),
   Orc("ok", "ok", "ok", "ok", 1, "ok"),
   Orc("ok", "ok", "ok", "ok", 0, "fail"),
   Orc("ok", "ok", "fail", "ok", 0, "ok"),
   Orc("ok", "ok", "ok", "fail", 0, "ok"),
   Orc("full", "ok", "ok", "ok", 0, "ok"),
   Orc("ok", "short", "ok", "ok", 0, "ok")}

\* Observation times (MJD) of mcmc_fitter_rad_interp: (Kp, H), out of
\* phase order
ObsTimes_rad_interp == {<< <<51793, 51783>>, <<51778>> >>}

\* Observed magnitudes and their errors: a clean set, one with a
\* not-a-number magnitude, one with a zero error
ObsMags_rad_interp ==
  {[kp_obs_mags |-> <<Num(166), Num(155)>>, kp_obs_mag_errors |-> <<1, 2>>,
    h_obs_mags |-> <<Num(175)>>, h_obs_mag_errors |-> <<1>>],
   [kp_obs_mags |-> <<NaNObs, Num(155)>>, kp_obs_mag_errors |-> <<1, 2>>,
    h_obs_mags |-> <<Num(175)>>, h_obs_mag_errors |-> <<1>>],
   [kp_obs_mags |-> <<Num(165), Num(155)>>, kp_obs_mag_errors |-> <<0, 2>>,
    h_obs_mags |-> <<Num(175)>>, h_obs_mag_errors |-> <<1>>]}

\* Observations of mcmc_fitter_bb: one array of filter labels, one of
\* times, one of values and one of errors
ObsFilts == {<<"kp", "kp", "h", "rv_pri", "rv_sec">>}

\* Label arrays whose roles differ: in the first the primary has one
\* velocity more than the secondary, in the second the primary's velocities
\* come in descending order of time (the times and values of 6 and of 7
\* entries below go with them).
ObsFilts_roles ==
  {<<"kp", "kp", "h", "rv_pri", "rv_pri", "rv_sec">>,
   <<"kp", "kp", "h", "rv_pri", "rv_pri", "rv_sec", "rv_sec">>}

\* Other labels for the five observations of ObsFilts
ObsFilts_relabel ==
  {<<"kp", "h", "kp", "rv_sec", "rv_pri">>,
   <<"h", "kp", "kp", "rv_pri", "rv_sec">>}

ObsTimes_bb ==
  {<<51793, 51783, 51778, 51788, 51788>>,
   <<51793, 51783, 51778, 51788, 51798, 51788>>,
   <<51793, 51783, 51778, 51798, 51788, 51788, 51798>>}

Obs_bb ==
  {[obs |-> <<Num(166), Num(155), Num(175), Num(16), Num(-15)>>,
    obs_errors |-> <<1, 2, 1, 1, 2>>],
   [obs |-> <<NaNObs, Num(155), Num(175), Num(16), Num(-15)>>,
    obs_errors |-> <<1, 2, 1, 1, 2>>],
   [obs |-> <<Num(165), Num(155), Num(175), Num(16), Num(-15)>>,
    obs_errors |-> <<0, 2, 1, 1, 2>>],
   [obs |-> <<Num(166), Num(155), Num(175), Num(16), Num(26), Num(-15)>>,
    obs_errors |-> <<1, 2, 1, 1, 1, 2>>],
   [obs |-> <<Num(166), Num(155), Num(175), Num(26), Num(16), Num(-15),
              NaNObs>>,
    obs_errors |-> <<1, 2, 1, 1, 1, 2, 2>>]}

\* Inputs of phased_obs taken alone: times before, at and after t0, one
\* period after t0, and next to zero; periods of a whole even number of
\* days
FoldMJDs ==
  {Whole(-10), Tiny(-1), Whole(0), Tiny(1), Whole(10), Whole(50),
   Whole(80), Whole(90)}

FoldTimes ==
  {<< <<a>>, <<c>> >> : a \in FoldMJDs, c \in {Whole(10)}}
  \cup {<< <<a, b>>, <<c>> >> :
          a \in FoldMJDs, b \in FoldMJDs, c \in {Whole(10)}}

FoldPeriods == {78, 80}

FoldT0s == {0, 10}

\* The Ks extinction make_isochrone / make_bb_params is called with (mag)
MakeKsExts == {2}

\* The isochrone's radius range (tenths of a solar radius)
IsoRadRanges == {<<50, 150>>}

\* The distance make_bb_params is called with (pc)
MakeDists == {8000}

\* The filter lists make_bb_params is called with: the module's two filter
\* objects in both orders, two filter objects of the caller's, one filter
\* alone, and a mix
FiltsLists ==
  {<<"kp", "h">>, <<"h", "kp">>, <<"kp_new", "h_new">>, <<"kp">>,
   <<"kp", "h_new">>, <<"kp", "h", "kp_new">>}

----------------------------------------------------------------------------
\* State

\* fitter: which class the instance is.   cfg: its configuration attributes.
\* nsetup: configuration calls made.      data: the observations set on it.
\* out: the call in progress at the sampler (NoCall between calls).

NoData ==
  [has_filts |-> FALSE, has_times |-> FALSE, has_obs |-> FALSE,
   obs_filts |-> <<>>,
   search_filt_kp |-> <<>>, search_filt_h |-> <<>>,
   search_filt_rv_pri |-> <<>>, search_filt_rv_sec |-> <<>>,
   search_filt_rv |-> <<>>, obs_filts_rv |-> <<>>,
   obs_times |-> <<>>, observation_times |-> <<>>,
   obs |-> <<>>, obs_errors |-> <<>>,
   kp_obs_mags |-> <<>>, kp_obs_mag_errors |-> <<>>,
   h_obs_mags |-> <<>>, h_obs_mag_errors |-> <<>>,
   obs_rv_pri |-> <<>>, obs_rv_pri_errors |-> <<>>,
   obs_rv_sec |-> <<>>, obs_rv_sec_errors |-> <<>>]

Call(op, theta, r) ==
  [op |-> op, theta |-> theta, ret |-> r.ret, lp |-> r.lp, ll |-> r.ll,
   model |-> r.model, calls |-> r.calls]

PriorResult(lp) == Result(lp, lp, NoFloat, NoModel, <<>>)

ModelResult(m) == Result(NoFloat, NoFloat, NoFloat, m, m.calls)

NoCall == Call("none", <<>>, Result(NoFloat, NoFloat, NoFloat, NoModel, <<>>))

Idle == out = NoCall

\* Every setup call sampling needs has been made
Ready == cfg.made /\ data.has_times /\ data.has_obs

Init ==
  /\ fitter \in Fitters
  /\ cfg = ClassDefaults(fitter)
  /\ nsetup = 0
  /\ data = NoData
  /\ out = NoCall

\* The extinction in a filter from the extinction in Ks (tenths of a mag)
FiltExt(Ks_ext, factor) == RoundDiv(Tenths(Ks_ext) * factor, 10000)

\* make_isochrone stores the isochrone, the distance and the extinctions
\* in Kp and H; no prior bound changes.
make_isochrone ==
  /\ fitter = "rad_interp"
  /\ Idle
  /\ \E r \in IsoRadRanges, d \in MakeDists, Ks_ext \in MakeKsExts :
       cfg' = [cfg EXCEPT !.made = TRUE, !.iso_rad_min = r[1],
                          !.iso_rad_max = r[2], !.dist = d,
                          !.filts_ext = [kp |-> FiltExt(Ks_ext, KsToKp),
                                         h |-> FiltExt(Ks_ext, KsToH)]]
  /\ UNCHANGED <<fitter, nsetup, data, out>>

\* (lambda_Ks / cur_filt.lambda_filt)**ext_alpha of a filter object, in
\* 1e-3: the objects are the module's kp_filt ("kp") and h_filt ("h") and
\* two the caller constructed, of the same two filter classes
FiltFactor(cur_filt) ==
  IF cur_filt \in {"kp", "kp_new"} THEN KsToKp ELSE KsToH

\* The attributes make_bb_params(Ks_ext, dist, filts_list) leaves on the
\* fitter: the distance as default_dist, the distance prior bounds revised
\* to 0.8 dist .. 1.2 dist, the filter list, and one extinction for each
\* filter object of the list, keyed by the object.
bb_params(c, Ks_ext, d, filts_list) ==
  [c EXCEPT !.made = TRUE, !.dist = d,
            !.dflt["binary_dist"] = Bare(d),
            !.lo["binary_dist"] = (8 * d) \div 10,
            !.hi["binary_dist"] = (12 * d) \div 10,
            !.filts_list = filts_list,
            !.filts_ext =
               [cur_filt \in {filts_list[i] : i \in 1..Len(filts_list)} |->
                  FiltExt(Ks_ext, FiltFactor(cur_filt))]]

\* make_bb_params(Ks_ext, dist) with the default filts_list
\* [kp_filt, h_filt]
make_bb_params ==
  /\ fitter = "bb"
  /\ Idle
  /\ \E d \in MakeDists, Ks_ext \in MakeKsExts :
       cfg' = bb_params(cfg, Ks_ext, d, <<"kp", "h">>)
  /\ UNCHANGED <<fitter, nsetup, data, out>>

\* make_bb_params(Ks_ext, dist, filts_list) with a filter list of the
\* caller's
make_bb_params_filts_list ==
  /\ fitter = "bb"
  /\ Idle
  /\ \E d \in MakeDists, Ks_ext \in MakeKsExts, filts_list \in FiltsLists :
       cfg' = bb_params(cfg, Ks_ext, d, filts_list)
  /\ UNCHANGED <<fitter, nsetup, data, out>>

\* set_<q>_prior_bounds(lo_bound, hi_bound)
set_prior_bounds ==
  /\ Idle
  /\ nsetup < MaxSetup
  /\ \E q \in (IF fitter = "bb" THEN Bounded_bb ELSE Bounded_rad_interp) :
       cfg' = [cfg EXCEPT !.lo[q] = AltBounds(q)[1], !.hi[q] = AltBounds(q)[2]]
  /\ nsetup' = nsetup + 1
  /\ UNCHANGED <<fitter, data, out>>

\* set_H_ext_mod_extLaw_sig_prior_bounds(sigma_bound)
set_H_ext_mod_extLaw_sig_prior_bounds ==
  /\ fitter = "bb"
  /\ Idle
  /\ nsetup < MaxSetup
  /\ cfg' = [cfg EXCEPT !.H_ext_mod_alpha_sig_bound = 1]
  /\ nsetup' = nsetup + 1
  /\ UNCHANGED <<fitter, data, out>>

\* fitter.model_<q> = False (mcmc_fitter_bb: attribute assignment;
\* mcmc_fitter_rad_interp: set_model_eccentricity)
set_model ==
  /\ Idle
  /\ nsetup < MaxSetup
  /\ \E q \in (IF fitter = "bb" THEN Toggles_bb ELSE {"binary_ecc"}) :
       cfg' = [cfg EXCEPT !.model[q] = FALSE]
  /\ nsetup' = nsetup + 1
  /\ UNCHANGED <<fitter, data, out>>

\* fitter.star<N>_<X>_larger = True
set_larger ==
  /\ fitter = "bb"
  /\ Idle
  /\ nsetup < MaxSetup
  /\ \E q \in StarQs : cfg' = [cfg EXCEPT !.larger[q] = TRUE]
  /\ nsetup' = nsetup + 1
  /\ UNCHANGED <<fitter, data, out>>

\* fitter.star1_teff_sig_bound = True
set_star1_teff_sig_bound ==
  /\ fitter = "bb"
  /\ Idle
  /\ nsetup < MaxSetup
  /\ cfg' = [cfg EXCEPT !.star1_teff_sig_bound = TRUE]
  /\ nsetup' = nsetup + 1
  /\ UNCHANGED <<fitter, data, out>>

\* mcmc_fitter_bb.set_observation_filts(obs_filts)
set_observation_filts ==
  /\ fitter = "bb"
  /\ Idle
  /\ ~data.has_filts
  /\ \E obs_filts \in ObsFilts :
       LET pri == where(obs_filts, "rv_pri")
           sec == where(obs_filts, "rv_sec")
       IN data' = [data EXCEPT
                     !.has_filts = TRUE,
                     !.obs_filts = obs_filts,
                     !.search_filt_kp = where(obs_filts, "kp"),
                     !.search_filt_h = where(obs_filts, "h"),
                     !.search_filt_rv_pri = pri,
                     !.search_filt_rv_sec = sec,
                     !.search_filt_rv = pri \o sec,
                     !.obs_filts_rv = Take(obs_filts, pri \o sec)]
  /\ UNCHANGED <<fitter, cfg, nsetup, out>>

\* mcmc_fitter_bb.set_observation_filts(obs_filts) with a label array of
\* ObsFilts_roles
set_observation_filts_roles ==
  /\ fitter = "bb"
  /\ Idle
  /\ ~data.has_filts
  /\ \E obs_filts \in ObsFilts_roles :
       LET pri == where(obs_filts, "rv_pri")
           sec == where(obs_filts, "rv_sec")
       IN data' = [data EXCEPT
                     !.has_filts = TRUE,
                     !.obs_filts = obs_filts,
                     !.search_filt_kp = where(obs_filts, "kp"),
                     !.search_filt_h = where(obs_filts, "h"),
                     !.search_filt_rv_pri = pri,
                     !.search_filt_rv_sec = sec,
                     !.search_filt_rv = pri \o sec,
                     !.obs_filts_rv = Take(obs_filts, pri \o sec)]
  /\ UNCHANGED <<fitter, cfg, nsetup, out>>

\* mcmc_fitter_bb.set_observation_filts(obs_filts) called again, with other
\* labels for the same observations: the label array and the index arrays
\* are replaced, nothing else is touched.
set_observation_filts_again ==
  /\ fitter = "bb"
  /\ Idle
  /\ data.obs_filts \in ObsFilts
  /\ \E obs_filts \in ObsFilts_relabel :
       LET pri == where(obs_filts, "rv_pri")
           sec == where(obs_filts, "rv_sec")
       IN data' = [data EXCEPT
                     !.obs_filts = obs_filts,
                     !.search_filt_kp = where(obs_filts, "kp"),
                     !.search_filt_h = where(obs_filts, "h"),
                     !.search_filt_rv_pri = pri,
                     !.search_filt_rv_sec = sec,
                     !.search_filt_rv = pri \o sec,
                     !.obs_filts_rv = Take(obs_filts, pri \o sec)]
  /\ UNCHANGED <<fitter, cfg, nsetup, out>>

\* mcmc_fitter_bb.set_observation_times(obs_times) before any
\* set_observation_filts: self.obs_times is assigned, then
\* self.search_filt_kp raises AttributeError.
set_observation_times_early ==
  /\ fitter = "bb"
  /\ Idle
  /\ ~data.has_filts
  /\ \E obs_times \in ObsTimes_bb :
       data' = [data EXCEPT !.obs_times = obs_times]
  /\ out' = Call("set_observation_times", <<>>,
                 Result(Raise, NoFloat, NoFloat, NoModel, <<>>))
  /\ UNCHANGED <<fitter, cfg, nsetup>>

\* mcmc_fitter_bb.set_observations(obs, obs_errors) before any
\* set_observation_filts: self.obs and self.obs_errors are assigned, then
\* self.search_filt_kp raises AttributeError.
set_observations_early ==
  /\ fitter = "bb"
  /\ Idle
  /\ ~data.has_filts
  /\ \E o \in Obs_bb :
       data' = [data EXCEPT !.obs = o.obs, !.obs_errors = o.obs_errors]
  /\ out' = Call("set_observations", <<>>,
                 Result(Raise, NoFloat, NoFloat, NoModel, <<>>))
  /\ UNCHANGED <<fitter, cfg, nsetup>>

\* set_observation_times: mcmc_fitter_rad_interp stores the two arrays it
\* is given; mcmc_fitter_bb splits one array by the stored filter indices
\* (the attributes set_observation_filts made).
set_observation_times ==
  /\ Idle
  /\ ~data.has_times
  /\ IF fitter = "bb"
     THEN /\ data.has_filts
          /\ \E obs_times \in ObsTimes_bb :
               /\ Len(obs_times) = Len(data.obs_filts)
               /\ data' = [data EXCEPT
                  !.has_times = TRUE,
                  !.obs_times = obs_times,
                  !.observation_times =
                     <<Take(obs_times, data.search_filt_kp),
                       Take(obs_times, data.search_filt_h),
                       unique(Take(obs_times, data.search_filt_rv))>>]
     ELSE \E t \in ObsTimes_rad_interp :
               data' = [data EXCEPT !.has_times = TRUE,
                                    !.observation_times = t]
  /\ UNCHANGED <<fitter, cfg, nsetup, out>>

\* mcmc_fitter_rad_interp.set_observation_mags
set_observation_mags ==
  /\ fitter = "rad_interp"
  /\ Idle
  /\ ~data.has_obs
  /\ \E o \in ObsMags_rad_interp :
       data' = [data EXCEPT !.has_obs = TRUE,
                            !.kp_obs_mags = o.kp_obs_mags,
                            !.h_obs_mags = o.h_obs_mags,
                            !.kp_obs_mag_errors = o.kp_obs_mag_errors,
                            !.h_obs_mag_errors = o.h_obs_mag_errors]
  /\ UNCHANGED <<fitter, cfg, nsetup, out>>

\* mcmc_fitter_bb.set_observations(obs, obs_errors)
set_observations ==
  /\ fitter = "bb"
  /\ Idle
  /\ data.has_filts
  /\ ~data.has_obs
  /\ \E o \in Obs_bb :
       /\ Len(o.obs) = Len(data.obs_filts)
       /\ data' = [data EXCEPT
          !.has_obs = TRUE,
          !.obs = o.obs,
          !.obs_errors = o.obs_errors,
          !.kp_obs_mags = Take(o.obs, data.search_filt_kp),
          !.kp_obs_mag_errors = Take(o.obs_errors, data.search_filt_kp),
          !.h_obs_mags = Take(o.obs, data.search_filt_h),
          !.h_obs_mag_errors = Take(o.obs_errors, data.search_filt_h),
          !.obs_rv_pri = Take(o.obs, data.search_filt_rv_pri),
          !.obs_rv_pri_errors = Take(o.obs_errors, data.search_filt_rv_pri),
          !.obs_rv_sec = Take(o.obs, data.search_filt_rv_sec),
          !.obs_rv_sec_errors = Take(o.obs_errors, data.search_filt_rv_sec)]
  /\ UNCHANGED <<fitter, cfg, nsetup, out>>

\* A call of lnprior(theta)
call_lnprior ==
  /\ Idle
  /\ \E theta \in Thetas(fitter, cfg) :
       out' = Call("lnprior", theta, PriorResult(lnprior(fitter, cfg, theta)))
  /\ UNCHANGED <<fitter, cfg, nsetup, data>>

\* A call of calculate_model_lc(theta) / calculate_model_obs(theta)
call_calculate_model ==
  /\ Idle
  /\ Ready
  /\ \E theta \in ModelThetas(fitter, cfg), orc \in Oracles :
       out' = Call("calculate_model", theta,
                   ModelResult(calculate_model(fitter, cfg, data, theta, orc)))
  /\ UNCHANGED <<fitter, cfg, nsetup, data>>

\* A call of lnlike(theta) that leaves the Kp observations in order of time
\* on the fitter
call_lnlike_in_place ==
  /\ Idle
  /\ Ready
  /\ \E theta \in ModelThetas(fitter, cfg), orc \in Oracles :
       out' = Call("lnlike", theta, lnlike(fitter, cfg, data, theta, orc))
  /\ data' = [data EXCEPT !.kp_obs_mags =
                 Take(data.kp_obs_mags, argsort(data.observation_times[1]))]
  /\ UNCHANGED <<fitter, cfg, nsetup>>

\* A call of lnlike(theta)
call_lnlike ==
  /\ Idle
  /\ Ready
  /\ \E theta \in ModelThetas(fitter, cfg), orc \in Oracles :
       out' = Call("lnlike", theta, lnlike(fitter, cfg, data, theta, orc))
  /\ UNCHANGED <<fitter, cfg, nsetup, data>>

\* A call of lnprob(theta)
call_lnprob ==
  /\ Idle
  /\ Ready
  /\ \E theta \in Thetas(fitter, cfg), orc \in Oracles :
       out' = Call("lnprob", theta, lnprob(fitter, cfg, data, theta, orc))
  /\ UNCHANGED <<fitter, cfg, nsetup, data>>

\* The caller takes the returned value.
return ==
  /\ ~Idle
  /\ out' = NoCall
  /\ UNCHANGED <<fitter, cfg, nsetup, data>>

\* A call of phased_obs(observation_times, binary_period, t0)
call_phased_obs ==
  /\ Idle
  /\ \E observation_times \in FoldTimes, binary_period \in FoldPeriods,
        t0 \in FoldT0s :
       out' = [op |-> "phased_obs",
               observation_times |-> observation_times,
               binary_period |-> binary_period, t0 |-> t0,
               star2_overflow |-> FALSE,
               ph |-> phased_obs_float(observation_times, binary_period, t0)]
  /\ UNCHANGED <<fitter, cfg, nsetup, data>>

\* A call of the binary forward model up to its phasing of the observation
\* times
call_binary_star_lc ==
  /\ Idle
  /\ \E observation_times \in FoldTimes, binary_period \in FoldPeriods,
        t0 \in FoldT0s, star2_overflow \in BOOLEAN :
       out' = [op |-> "binary_star_lc",
               observation_times |-> observation_times,
               binary_period |-> binary_period, t0 |-> t0,
               star2_overflow |-> star2_overflow,
               ph |-> model_phasing(star2_overflow, observation_times,
                                    binary_period, t0)]
  /\ UNCHANGED <<fitter, cfg, nsetup, data>>

\* Configuration of the prior and calls of lnprior
Next ==
  \/ make_isochrone
  \/ make_bb_params
  \/ set_prior_bounds
  \/ set_H_ext_mod_extLaw_sig_prior_bounds
  \/ set_model
  \/ set_larger
  \/ set_star1_teff_sig_bound
  \/ call_lnprior
  \/ return

Spec == Init /\ [][Next]_vars

\* Setup of a fitter with the class-default prior bounds, and calls of the
\* forward model, lnlike and lnprob once it is set up
NextProb ==
  \/ make_isochrone
  \/ make_bb_params
  \/ set_model
  \/ set_observation_filts
  \/ set_observation_times
  \/ set_observation_mags
  \/ set_observations
  \/ call_calculate_model
  \/ call_lnlike
  \/ call_lnprob
  \/ return

SpecProb == Init /\ [][NextProb]_vars

\* Setup of a fitter whose velocity roles differ in number or in order of
\* time, and calls of the forward model and of lnlike
NextRoles ==
  \/ make_isochrone
  \/ make_bb_params
  \/ set_model
  \/ set_observation_filts_roles
  \/ set_observation_times
  \/ set_observation_mags
  \/ set_observations
  \/ call_calculate_model
  \/ call_lnlike
  \/ return

SpecRoles == Init /\ [][NextRoles]_vars

\* Setup of a fitter with a filter list of the caller's, and calls of the
\* forward model
NextFilts ==
  \/ make_isochrone
  \/ make_bb_params_filts_list
  \/ set_model
  \/ set_observation_filts
  \/ set_observation_times
  \/ set_observation_mags
  \/ set_observations
  \/ call_calculate_model
  \/ return

SpecFilts == Init /\ [][NextFilts]_vars

\* The observation setters in any order, set_observation_filts more than
\* once
NextObs ==
  \/ set_observation_filts
  \/ set_observation_filts_again
  \/ set_observation_times_early
  \/ set_observation_times
  \/ set_observation_mags
  \/ set_observations_early
  \/ set_observations
  \/ return

SpecObs == Init /\ [][NextObs]_vars

----------------------------------------------------------------------------
\* Several instances of one fitter class

\* In this part cfg holds the attributes of the class (class) and the
\* attributes each instance carries itself (objs[i], the instance's
\* __dict__), by attribute name: lo_<q>_prior_bound is <<"lo", q>>,
\* hi_<q>_prior_bound <<"hi", q>>, model_<q> <<"model", q>>, and so on.

MaxInstances == 2

\* The toggles of the class
TogglesOf(f) == IF f = "bb" THEN Toggles_bb ELSE {"binary_ecc"}

\* The attributes the class statement defines
ClassDict(f) ==
  LET B == IF f = "bb" THEN Bounded_bb ELSE Bounded_rad_interp
      names == {<<"lo", q>> : q \in B} \cup {<<"hi", q>> : q \in B}
               \cup {<<"model", q>> : q \in TogglesOf(f)}
               \cup (IF f = "bb" THEN {<<"default", "binary_dist">>} ELSE {})
  IN [a \in names |->
        CASE a[1] = "lo" -> ClassDefaults(f).lo[a[2]]
          [] a[1] = "hi" -> ClassDefaults(f).hi[a[2]]
          [] a[1] = "model" -> ClassDefaults(f).model[a[2]]
          [] OTHER -> ClassDefaults(f).dflt[a[2]].v]

\* An instance right after __init__: no attribute of its own
NoAttrs == [a \in {} |-> 0]

\* instance.a: the instance's own attribute if it has one, else the class's
getattr(w, i, a) ==
  IF a \in DOMAIN w.objs[i] THEN w.objs[i][a] ELSE w.class[a]

\* An assignment that binds the name in the class instead
class_assign(w, i, a, v) == [w EXCEPT !.class[a] = v]

\* self.a = v in a method called on instance i
self_assign(w, i, a, v) ==
  [w EXCEPT !.objs[i] =
     [x \in DOMAIN @ \cup {a} |-> IF x = a THEN v ELSE @[x]]]

InitInst ==
  /\ fitter \in Fitters
  /\ cfg = [class |-> ClassDict(fitter), objs |-> <<NoAttrs>>]
  /\ nsetup = 0
  /\ data = NoData
  /\ out = NoCall

\* mcmc_fitter_bb() / mcmc_fitter_rad_interp(): __init__ returns at once
construct ==
  /\ Len(cfg.objs) < MaxInstances
  /\ cfg' = [cfg EXCEPT !.objs = Append(@, NoAttrs)]
  /\ UNCHANGED <<fitter, nsetup, data, out>>

\* set_<q>_prior_bounds(lo_bound, hi_bound) on instance i
set_prior_bounds_on ==
  /\ nsetup < MaxSetup
  /\ \E i \in 1..Len(cfg.objs),
        q \in (IF fitter = "bb" THEN Bounded_bb ELSE Bounded_rad_interp) :
       cfg' = self_assign(self_assign(cfg, i, <<"lo", q>>, AltBounds(q)[1]),
                          i, <<"hi", q>>, AltBounds(q)[2])
  /\ nsetup' = nsetup + 1
  /\ UNCHANGED <<fitter, data, out>>

\* model_<q> = False on instance i (mcmc_fitter_rad_interp:
\* set_model_eccentricity(False))
set_model_on ==
  /\ nsetup < MaxSetup
  /\ \E i \in 1..Len(cfg.objs), q \in TogglesOf(fitter) :
       cfg' = self_assign(cfg, i, <<"model", q>>, FALSE)
  /\ nsetup' = nsetup + 1
  /\ UNCHANGED <<fitter, data, out>>

\* make_isochrone / make_bb_params on instance i: Ks_ext and dist, and for
\* mcmc_fitter_bb default_dist and the distance prior bounds
make_on ==
  /\ nsetup < MaxSetup
  /\ \E i \in 1..Len(cfg.objs), d \in MakeDists, Ks_ext \in MakeKsExts :
       LET w == self_assign(self_assign(cfg, i, <<"Ks_ext", "">>, Ks_ext),
                            i, <<"dist", "">>, d)
       IN cfg' =
            IF fitter = "bb"
            THEN self_assign(
                   self_assign(
                     self_assign(w, i, <<"default", "binary_dist">>, d),
                     i, <<"lo", "binary_dist">>, (8 * d) \div 10),
                   i, <<"hi", "binary_dist">>, (12 * d) \div 10)
            ELSE w
  /\ nsetup' = nsetup + 1
  /\ UNCHANGED <<fitter, data, out>>

NextInst ==
  \/ construct
  \/ set_prior_bounds_on
  \/ set_model_on
  \/ make_on

SpecInst == InitInst /\ [][NextInst]_vars

----------------------------------------------------------------------------
\* mesh_animate: single_star_mesh, binary_star_mesh and binary_mesh_calc

\* A star as binary_star_mesh sees it: its radius, and the largest radius
\* the binary allows it (requiv_max, which the engine answers), both in
\* 1e-3 solar radii.  An engine outcome eng tells whether setting the
\* secondary's radius and run_compute raise.

\* The names bound at module level in mesh_animate.py: its imports, its
\* reference values and its six functions
Globals_mesh_animate ==
  {"phoebe", "u", "const", "np", "synthetic", "sys", "Table", "plt",
   "font_manager", "MultipleLocator",
   "single_star_mesh", "binary_star_mesh", "phased_obs",
   "dist_ext_mag_calc", "flux_adj", "binary_mesh_calc"}

\* The result of a call: what it returns (ret, a tuple of arrays) or the
\* exception that leaves it (exc), the binary it set up and whether it was
\* computed, the flags it found, and the arguments of the re-evaluation it
\* made, if any
MeshOut(res, exc, ret, b, flags, redo) ==
  [res |-> res, exc |-> exc, ret |-> ret, b |-> b, flags |-> flags,
   redo |-> redo]

\* err_out of single_star_mesh: the array, returned twice
err_out_single == <<Sentinel>>

\* err_out of binary_star_mesh: two arrays
err_out_mesh == << <<Sentinel>>, <<Sentinel>> >>

\* A bundle of phoebe: default_binary() or default_binary(contact_binary=
\* True), an eccentricity if one was set, its constraints and datasets
Bundle(contact, ecc, constraints, datasets, computed) ==
  [contact |-> contact, ecc |-> ecc, constraints |-> constraints,
   datasets |-> datasets, computed |-> computed]

\* b.set_value('ecc@binary@component', v) was called / was not
EccSet(v) == [set |-> TRUE, v |-> v]
EccDefault == [set |-> FALSE, v |-> 0]

NoBundle == Bundle(FALSE, EccDefault, {}, {}, FALSE)

NoFlags ==
  [star1_semidetached |-> FALSE, star2_semidetached |-> FALSE,
   star1_overflow |-> FALSE, star2_overflow |-> FALSE]

NoRedo == [made |-> FALSE]

\* single_star_mesh: run_compute raising on every outcome of the engine
\* but "ok"
single_star_mesh(run_compute) ==
  IF run_compute # "ok"
  THEN MeshOut("ok", "", <<err_out_single, err_out_single>>,
               NoBundle, NoFlags, NoRedo)
  ELSE MeshOut("ok", "", << <<150>>, <<160>> >>,
               [NoBundle EXCEPT !.computed = TRUE], NoFlags, NoRedo)

\* np.abs((rad - rad_max) / rad_max) < semidet_cut, semidet_cut = 0.015
semidetached(star) ==
  1000 * Abs(star.rad - star.rad_max) < 15 * star.rad_max

\* (rad > rad_max) and not semidetached
overflow(star) == star.rad > star.rad_max /\ ~semidetached(star)

\* The flags after the check for both stars overflowing
overflow_flags(star1, star2) ==
  LET both == overflow(star1) /\ overflow(star2)
      keep1 == (star1.rad - star1.rad_max) >= (star2.rad - star2.rad_max)
  IN [star1_semidetached |-> semidetached(star1),
      star2_semidetached |-> semidetached(star2),
      star1_overflow |-> overflow(star1) /\ (both => keep1),
      star2_overflow |-> overflow(star2) /\ (both => ~keep1)]

\* The eccentricity set on the bundle whatever the flags
ecc_always(binary_detached, binary_ecc) == EccSet(binary_ecc)

\* if binary_detached: set ecc to binary_ecc, else: set it to 0.
ecc_set(binary_detached, binary_ecc) ==
  IF binary_detached THEN EccSet(binary_ecc) ELSE EccSet(0)

\* The binary as binary_star_mesh has set it up before any dataset: for an
\* overflowing star a new contact bundle, on which no eccentricity is set
binary_setup(f, binary_ecc) ==
  LET binary_detached ==
        ~f.star1_semidetached /\ ~f.star2_semidetached
        /\ ~f.star1_overflow /\ ~f.star2_overflow
      constraints ==
        (IF f.star1_semidetached /\ ~f.star2_overflow
         THEN {"semidetached@primary"} ELSE {})
        \cup (IF f.star2_semidetached /\ ~f.star1_overflow
              THEN {"semidetached@secondary"} ELSE {})
  IN IF f.star1_overflow \/ f.star2_overflow
     THEN Bundle(TRUE, EccDefault, constraints, {}, FALSE)
     ELSE Bundle(FALSE, ecc_set(binary_detached, binary_ecc), constraints,
                 {}, FALSE)

\* The datasets binary_star_mesh adds
mesh_datasets(make_mesh_plots) ==
  {"mod_lc_Kp", "mod_lc_H"}
  \cup (IF make_mesh_plots THEN {"mod_mesh"} ELSE {})

\* What binary_star_mesh returns after a run_compute that went through
mesh_return(make_mesh_plots) ==
  IF make_mesh_plots THEN << <<150, 151>>, <<160>>, <<"mesh_plot">> >>
  ELSE << <<150, 151>>, <<160>> >>

\* run_compute with no handler around it
run_compute_uncaught(outcome, b, f, make_mesh_plots) ==
  IF outcome # "ok"
  THEN MeshOut("raise", outcome, <<>>, b, f, NoRedo)
  ELSE MeshOut("ok", "", mesh_return(make_mesh_plots),
               [b EXCEPT !.computed = TRUE], f, NoRedo)

\* try: b.run_compute(...)  except: return err_out
run_compute(outcome, b, f, make_mesh_plots) ==
  IF outcome # "ok"
  THEN MeshOut("ok", "", err_out_mesh, b, f, NoRedo)
  ELSE MeshOut("ok", "", mesh_return(make_mesh_plots),
               [b EXCEPT !.computed = TRUE], f, NoRedo)

\* binary_star_mesh from the secondary's radius on: setting it may raise
\* (caught: err_out), then the datasets are added and the binary computed
mesh_compute(f, b, make_mesh_plots, eng) ==
  IF /\ ~f.star2_semidetached /\ ~f.star1_overflow /\ ~f.star2_overflow
     /\ eng.set_value # "ok"
  THEN MeshOut("ok", "", err_out_mesh, b, f, NoRedo)
  ELSE run_compute(eng.run_compute,
                   [b EXCEPT !.datasets = mesh_datasets(make_mesh_plots)],
                   f, make_mesh_plots)

\* binary_star_mesh once the name of the re-evaluation has been looked up
\* (same flow; the stars arrive with star 2 in the place of star 1, so the
\* flags cannot ask for another exchange unless both overflow alike)
mesh_redone(star1, star2, binary_params, make_mesh_plots, eng) ==
  LET f == overflow_flags(star1, star2)
  IN [mesh_compute(f, binary_setup(f, binary_params.binary_ecc),
                   make_mesh_plots, eng)
        EXCEPT !.redo = [made |-> TRUE, star1_params |-> star1,
                         star2_params |-> star2,
                         binary_params |-> binary_params]]

\* binary_star_mesh(star1_params, star2_params, binary_params,
\* observation_times, make_mesh_plots=...).  When star 2 alone overflows it
\* returns binary_star_lc(star2_params, star1_params, redo_binary_params,
\* ...): a name that must be bound at module level, NameError otherwise.
binary_star_mesh(star1, star2, binary_params, make_mesh_plots, eng) ==
  LET f == overflow_flags(star1, star2)
      redo_binary_params ==
        [binary_params EXCEPT !.t0 = @ - binary_params.binary_period \div 2]
  IN IF f.star2_overflow /\ ~f.star1_overflow
     THEN (IF "binary_star_lc" \in Globals_mesh_animate
           THEN [mesh_redone(star2, star1, redo_binary_params,
                             make_mesh_plots, eng) EXCEPT !.flags = f]
           ELSE MeshOut("raise", "NameError", <<>>, NoBundle, f, NoRedo))
     ELSE mesh_compute(f, binary_setup(f, binary_params.binary_ecc),
                       make_mesh_plots, eng)

\* binary_mesh_calc: the tuple binary_star_mesh returned is unpacked into
\* three names with make_mesh_plots and into two without (ValueError when
\* the lengths differ), then tested for the failure value.
binary_mesh_calc(star1, star2, binary_params, make_mesh_plots, eng) ==
  LET binary_star_lc_out ==
        binary_star_mesh(star1, star2, binary_params, make_mesh_plots, eng)
      names == IF make_mesh_plots THEN 3 ELSE 2
  IN IF binary_star_lc_out.res = "raise"
     THEN [mesh |-> binary_star_lc_out, ret |-> Raise,
           exc |-> binary_star_lc_out.exc]
     ELSE IF Len(binary_star_lc_out.ret) # names
     THEN [mesh |-> binary_star_lc_out, ret |-> Raise, exc |-> "ValueError"]
     ELSE IF \/ binary_star_lc_out.ret[1][1] = Sentinel
             \/ binary_star_lc_out.ret[2][1] = Sentinel
     THEN [mesh |-> binary_star_lc_out, ret |-> NegInf, exc |-> ""]
     ELSE [mesh |-> binary_star_lc_out, ret |-> Zero, exc |-> ""]

\* Stars: one well inside its largest radius, one within 1.5 per cent of
\* it, and overflowing ones, by 200 of 1000 (a fifth), by 300 of 3000 (a
\* tenth) and by 200 of 3000
MeshStars ==
  {[rad |-> 800, rad_max |-> 1000], [rad |-> 1010, rad_max |-> 1000],
   [rad |-> 1200, rad_max |-> 1000], [rad |-> 3300, rad_max |-> 3000],
   [rad |-> 3200, rad_max |-> 3000]}

\* (binary_period, binary_ecc, binary_inc, t0): period and t0 in days, the
\* eccentricity in tenths
MeshBinaryParams ==
  {[binary_period |-> 80, binary_ecc |-> e, binary_inc |-> 90,
    t0 |-> 51773] : e \in {0, 3}}

\* Outcomes of the engine: of setting the secondary's radius and of
\* run_compute
MeshEngines ==
  {[set_value |-> s, run_compute |-> r] :
     s \in {"ok", "ValueError"}, r \in {"ok", "ValueError", "KeyboardInterrupt"}}

call_single_star_mesh ==
  /\ Idle
  /\ \E eng \in MeshEngines :
       out' = [op |-> "single_star_mesh", eng |-> eng,
               r |-> single_star_mesh(eng.run_compute)]
  /\ UNCHANGED <<fitter, cfg, nsetup, data>>

call_binary_star_mesh ==
  /\ Idle
  /\ \E star1 \in MeshStars, star2 \in MeshStars,
        binary_params \in MeshBinaryParams, make_mesh_plots \in BOOLEAN,
        eng \in MeshEngines :
       out' = [op |-> "binary_star_mesh", star1_params |-> star1,
               star2_params |-> star2, binary_params |-> binary_params,
               make_mesh_plots |-> make_mesh_plots, eng |-> eng,
               r |-> binary_star_mesh(star1, star2, binary_params,
                                      make_mesh_plots, eng)]
  /\ UNCHANGED <<fitter, cfg, nsetup, data>>

call_binary_mesh_calc ==
  /\ Idle
  /\ \E star1 \in MeshStars, star2 \in MeshStars,
        binary_params \in MeshBinaryParams, make_mesh_plots \in BOOLEAN,
        eng \in MeshEngines :
       out' = [op |-> "binary_mesh_calc", star1_params |-> star1,
               star2_params |-> star2, binary_params |-> binary_params,
               make_mesh_plots |-> make_mesh_plots, eng |-> eng,
               r |-> binary_mesh_calc(star1, star2, binary_params,
                                      make_mesh_plots, eng)]
  /\ UNCHANGED <<fitter, cfg, nsetup, data>>

NextMesh ==
  \/ call_single_star_mesh
  \/ call_binary_star_mesh
  \/ call_binary_mesh_calc
  \/ return

SpecMesh == Init /\ [][NextMesh]_vars

\* Calls of phased_obs and of the phasing of the forward model
NextFold ==
  \/ call_phased_obs
  \/ call_binary_star_lc
  \/ return

SpecFold == Init /\ [][NextFold]_vars

----------------------------------------------------------------------------
\* Properties of lnprob, lnlike and the forward model (checked on SpecProb)

\* The call in out made a step fn that ended as res
HasStep(fn, res) == \E i \in 1..Len(out.calls) : out.calls[i] = Step(fn, res)

\* The call in out invoked fn
Invoked(fn) == \E i \in 1..Len(out.calls) : out.calls[i].fn = fn

\* The forward-model and interpolation collaborators
Collaborators ==
  {"single_star_lc", "binary_star_lc", "rad_interp", "calc_stellar_params"}

\* The steps that follow the binary forward model inside the
\* model-calculation step, and the steps of lnlike that follow the model
AfterBinary == {"dist_ext_mag_calc", "flux_adj"}
AfterModel == {"phased_obs", "chi_square"}

\* The failure sentinel as the model-calculation step of the fitter
\* returns it
ErrOut ==
  IF fitter = "bb" THEN err_out_obs(out.model.calls)
  ELSE err_out_lc(out.model.calls)

\* C1: in both fitters lnprob evaluates lnprior first, and whenever the
\* prior it gets is not finite it returns -infinity and has invoked neither
\* lnlike nor any forward-model or interpolation collaborator.
C1_prior_gates_lnprob ==
  out.op = "lnprob" =>
    /\ Len(out.calls) >= 1
    /\ out.calls[1].fn = "lnprior"
    /\ out.lp = lnprior(fitter, cfg, out.theta)
    /\ (out.lp # Raise /\ ~isfinite(out.lp)) =>
          /\ out.ret = NegInf
          /\ ~Invoked("lnlike")
          /\ \A fn \in Collaborators : ~Invoked(fn)

\* A call of lnprob of mcmc_fitter_bb whose prior is -infinity has
\* returned -infinity after the one step lnprior.
C1_witness ==
  /\ fitter = "bb"
  /\ out.op = "lnprob"
  /\ out.lp = NegInf
  /\ out.ret = NegInf
  /\ out.calls = <<Step("lnprior", "ok")>>

\* C2: in both fitters, when the prior is finite, lnprob returns
\* -infinity if lnlike is not finite (-infinity, +infinity or not a
\* number) and otherwise returns lnprior + lnlike.
C2_nonfinite_likelihood_rejected ==
  (out.op = "lnprob" /\ isfinite(out.lp) /\ out.ret # Raise) =>
    out.ret = IF isfinite(out.ll) THEN FAdd(out.lp, out.ll) ELSE NegInf

\* C3: in both fitters, when the binary forward model signals failure the
\* model-calculation step returns the failure sentinel, nothing having been
\* applied to the magnitudes after the binary model, and lnlike returns
\* -infinity without raising, without phase-folding and without a
\* chi-square sum.
C3_binary_failure_short_circuits ==
  (out.op \in {"calculate_model", "lnlike", "lnprob"}
     /\ HasStep("binary_star_lc", "fail")) =>
    /\ out.model = ErrOut
    /\ out.model.calls[Len(out.model.calls)] = Step("binary_star_lc", "fail")
    /\ \A i \in 1..Len(out.calls) :
         out.calls[i].fn = "binary_star_lc" =>
           \A j \in (i + 1)..Len(out.calls) :
             out.calls[j].fn \notin AfterBinary \cup AfterModel
    /\ out.op = "lnlike" => out.ret = NegInf
    /\ out.op = "lnprob" => out.ll = NegInf

\* A call of lnlike of mcmc_fitter_bb in which the binary forward model
\* failed has returned -infinity.
C3_witness ==
  /\ fitter = "bb"
  /\ out.op = "lnlike"
  /\ HasStep("binary_star_lc", "fail")
  /\ out.ret = NegInf

\* C4: in both fitters every result of the stellar-interpolation
\* collaborator is tested for the failure sentinel, and on failure the
\* model-calculation step returns the failure sentinel before the
\* single-star or the binary forward model is invoked.
C4_interpolation_failure_checked ==
  (out.op \in {"calculate_model", "lnlike", "lnprob"}
     /\ \E i \in 1..Len(out.calls) :
          /\ out.calls[i].fn \in {"rad_interp", "calc_stellar_params"}
          /\ out.calls[i].res # "ok") =>
    /\ out.model = ErrOut
    /\ ~Invoked("single_star_lc")
    /\ ~Invoked("binary_star_lc")

----------------------------------------------------------------------------
\* Properties of lnprior

\* A call of lnprior has returned a value (it did not raise)
LnpriorReturned == out.op = "lnprior" /\ out.ret.k # "raise"

BoundedQs == IF fitter = "bb" THEN Bounded_bb ELSE Bounded_rad_interp

HasSlot(q) == SlotOf(fitter, cfg, q) > 0

ThetaOf(q) == out.theta[SlotOf(fitter, cfg, q)]

\* The theta component of q lies strictly outside q's configured bounds
Outside(q) ==
  HasSlot(q) /\ (ThetaOf(q) < cfg.lo[q] \/ ThetaOf(q) > cfg.hi[q])

\* q is scored by a Gaussian density instead of being gated by its bounds
GaussianMode(q) ==
  /\ fitter = "bb"
  /\ \/ q = "H_ext_mod" /\ cfg.H_ext_mod_alpha_sig_bound # -1
     \/ q = "star1_teff" /\ cfg.star1_teff_sig_bound

\* The value lnprior of mcmc_fitter_bb works with for q (slot or default)
UnpackedV(q) == unpack_lnprior_bb(cfg, out.theta)[q].v

Sibling(q) ==
  CASE q = "star1_mass" -> "star2_mass" [] q = "star2_mass" -> "star1_mass"
    [] q = "star1_rad" -> "star2_rad" [] q = "star2_rad" -> "star1_rad"
    [] q = "star1_teff" -> "star2_teff" [] q = "star2_teff" -> "star1_teff"

HasTerm(x, name) == \E t \in x.g : t[1] = name

\* C5: whenever lnprior returns for a theta with a component strictly
\* outside the [lo, hi] bound of its quantity (a quantity that is gated by
\* its bound, not Gaussian-scored), the value returned is -infinity.
C5_out_of_bounds_rejected ==
  (LnpriorReturned /\ \E q \in BoundedQs : Outside(q) /\ ~GaussianMode(q))
    => out.ret = NegInf

\* C6: in mcmc_fitter_bb.lnprior each of H_ext_mod and star1_teff has its
\* own mode: H_ext_mod outside its bounds gives -infinity exactly in its
\* uniform mode whatever the mode of star1_teff, a modelled star1_teff
\* outside its bounds gives -infinity in its uniform mode, and a finite
\* value carries a Gaussian term of a quantity exactly when that quantity
\* is in Gaussian mode.
C6_mode_per_quantity ==
  (fitter = "bb" /\ LnpriorReturned) =>
    /\ ( /\ ~GaussianMode("H_ext_mod")
         /\ BoundCheck(cfg, "H_ext_mod", [v |-> UnpackedV("H_ext_mod")]) = "F" )
         => out.ret = NegInf
    /\ ( /\ ~GaussianMode("star1_teff")
         /\ Outside("star1_teff") )
         => out.ret = NegInf
    /\ isfinite(out.ret) =>
         /\ HasTerm(out.ret, "H_ext_mod") <=> GaussianMode("H_ext_mod")
         /\ HasTerm(out.ret, "star1_teff") <=> GaussianMode("star1_teff")

\* The radius / ordering constraints configured hold of the proposal
OrderingOK ==
  IF fitter = "bb"
  THEN \A q \in StarQs : cfg.larger[q] => UnpackedV(q) > UnpackedV(Sibling(q))
  ELSE rad_check(cfg, ThetaOf("star1_rad"), ThetaOf("star2_rad"))

\* C7: whenever lnprior returns for a theta whose components all lie within
\* their configured bounds (endpoints included) and which satisfies the
\* radius / ordering constraints, the value is exactly 0.0 when every
\* quantity is in uniform mode and finite when one is in Gaussian mode.
C7_valid_theta_accepted ==
  ( /\ LnpriorReturned
    /\ \A q \in BoundedQs : ~Outside(q)
    /\ OrderingOK )
    => IF fitter = "bb" /\ ~prior_simple_mode(cfg)
       THEN isfinite(out.ret)
       ELSE out.ret = Zero

\* The six bound checks of mcmc_fitter_rad_interp.lnprior pass
OtherChecks_rad_interp ==
  LET u == unpack_rad_interp(cfg, out.theta)
  IN \A q \in Bounded_rad_interp : cfg.lo[q] <= u[q] /\ u[q] <= cfg.hi[q]

\* C8: mcmc_fitter_rad_interp.lnprior returns -infinity for every theta with
\* star1_rad < star2_rad or with a radius outside [iso_rad_min,
\* iso_rad_max], whatever the other parameters; with star1_rad >= star2_rad
\* (equality included), both radii in the range and the other checks
\* passing it returns 0.0.
C8_radius_constraints ==
  (fitter = "rad_interp" /\ LnpriorReturned) =>
    LET r1 == ThetaOf("star1_rad")
        r2 == ThetaOf("star2_rad")
        InRange(r) == cfg.iso_rad_min <= r /\ r <= cfg.iso_rad_max
    IN /\ (r1 < r2 \/ ~InRange(r1) \/ ~InRange(r2)) => out.ret = NegInf
       /\ (r1 >= r2 /\ InRange(r1) /\ InRange(r2) /\ OtherChecks_rad_interp)
            => out.ret = Zero

\* C8 witness: both radii inside the isochrone's range, star1_rad smaller
\* than star2_rad, everything else valid, and the prior is -infinity.
C8_witness ==
  /\ fitter = "rad_interp" /\ LnpriorReturned
  /\ ThetaOf("star1_rad") < ThetaOf("star2_rad")
  /\ cfg.iso_rad_min <= ThetaOf("star1_rad")
  /\ ThetaOf("star2_rad") <= cfg.iso_rad_max
  /\ OtherChecks_rad_interp
  /\ out.ret = NegInf

\* C9 as stated: whenever lnprior returns for a theta with binary_inc
\* outside [0, 180], the value is -infinity.
C9_inc_outside_0_180 ==
  (LnpriorReturned /\ (ThetaOf("binary_inc") < 0 \/ ThetaOf("binary_inc") > 180))
    => out.ret = NegInf

\* C9 amended: whenever lnprior returns for a theta with binary_inc outside
\* the configured [lo_inc_prior_bound, hi_inc_prior_bound] ([0, 180] until
\* set_inc_prior_bounds changes it), the value is -infinity, in both
\* fitters.
C9_inc_outside_configured ==
  (LnpriorReturned /\ Outside("binary_inc")) => out.ret = NegInf

\* C9 witness: binary_inc = 200 against the default bound, every other
\* component valid, and the prior is -infinity.
C9_witness ==
  /\ LnpriorReturned
  /\ ThetaOf("binary_inc") = 200 /\ cfg.hi["binary_inc"] = 180
  /\ \A q \in BoundedQs \ {"binary_inc"} : ~Outside(q)
  /\ out.ret = NegInf

\* C10: whenever mcmc_fitter_bb.lnprior returns a finite value, every
\* quantity whose star<N>_<X>_larger flag is set has star N's value
\* strictly greater than the other star's (in either prior mode, the values
\* being theta slots or defaults).
C10_larger_is_strict ==
  (fitter = "bb" /\ LnpriorReturned /\ isfinite(out.ret)) =>
    \A q \in StarQs : cfg.larger[q] => UnpackedV(q) > UnpackedV(Sibling(q))

\* C10 witness: a flag is set, the two stars' values are equal, every bound
\* check passes, and the prior is -infinity.
C10_witness ==
  /\ fitter = "bb" /\ LnpriorReturned
  /\ \E q \in StarQs :
       cfg.larger[q] /\ UnpackedV(q) = UnpackedV(Sibling(q))
  /\ out.theta = BaseTheta(fitter, cfg)
  /\ \A q \in BoundedQs : ~Outside(q)
  /\ out.ret = NegInf

----------------------------------------------------------------------------
\* Properties of the unpacking of theta (checked on Spec)

\* q is a free quantity of the configuration c: it has no model_* attribute
\* or its model_* attribute is true (model_system_RV is the attribute of
\* binary_rv_sys).
Free(c, q) == q \notin Toggles_bb \/ c.model[q]

FreeCount_bb(c) ==
  Cardinality({k \in 1..Len(Quantities_bb) : Free(c, Quantities_bb[k])})

\* The number of slots the walk of mcmc_fitter_bb has read when it ends
SlotsRead_bb(c) == ThetaIndex_bb(c, Len(Quantities_bb) + 1) - 1

\* The number of slots the tuple assignment of mcmc_fitter_rad_interp takes
SlotsRead_rad_interp(c) ==
  Cardinality({k \in 1..Len(Quantities_rad_interp) :
                 ReadsSlot_rad_interp(c, Quantities_rad_interp[k])})

\* The attributes the walk of mcmc_fitter_bb tests
TestedToggles_bb == Toggles_bb \ {"binary_rv_sys"}

\* A call of mcmc_fitter_bb.lnprior whose unpacking ran to its end
UnpackedCall_bb == fitter = "bb" /\ LnpriorReturned

\* C11: the unpacking of mcmc_fitter_bb walks the quantities in the fixed
\* order; each free quantity consumes exactly the next slot of theta and
\* each fixed quantity takes its default without consuming one, so the
\* number of slots read is the number of free quantities and t0 is read
\* from the slot whose index (counted from 0) is that number less one.
C11_walk_consumes_free ==
  UnpackedCall_bb =>
    /\ \A k \in 1..Len(Quantities_bb) :
         /\ ReadsSlot_bb(cfg, Quantities_bb[k]) = Free(cfg, Quantities_bb[k])
         /\ ~Free(cfg, Quantities_bb[k]) =>
              UnpackedV(Quantities_bb[k]) = cfg.dflt[Quantities_bb[k]].v
    /\ SlotsRead_bb(cfg) = FreeCount_bb(cfg)
    /\ ThetaIndex_bb(cfg, 14) - 1 = FreeCount_bb(cfg) - 1

\* C13: the systemic radial velocity has a modelling toggle: when
\* model_system_RV is false it takes default_system_RV and consumes no slot
\* of theta; when true it consumes one slot.
C13_system_RV_toggle ==
  UnpackedCall_bb =>
    IF cfg.model["binary_rv_sys"]
    THEN ThetaIndex_bb(cfg, 12) = ThetaIndex_bb(cfg, 11) + 1
    ELSE /\ ThetaIndex_bb(cfg, 12) = ThetaIndex_bb(cfg, 11)
         /\ UnpackedV("binary_rv_sys") = cfg.dflt["binary_rv_sys"].v

\* C14 as stated: mcmc_fitter_rad_interp consumes 8 slots when
\* model_eccentricity is true and 7 when false, and mcmc_fitter_bb consumes
\* at most 13 slots under any combination of its toggles.
C14_at_most_13_slots ==
  LnpriorReturned =>
    IF fitter = "bb"
    THEN Len(out.theta) = SlotsRead_bb(cfg) /\ SlotsRead_bb(cfg) <= 13
    ELSE /\ Len(out.theta) = SlotsRead_rad_interp(cfg)
         /\ SlotsRead_rad_interp(cfg) = IF cfg.model["binary_ecc"] THEN 8 ELSE 7

\* C14 amended: mcmc_fitter_rad_interp consumes 8 slots when
\* model_eccentricity is true and 7 when false; mcmc_fitter_bb consumes 5
\* slots plus one for each of the nine model_* attributes it tests that is
\* true, so at most 14 slots, the 14 being consumed under the class
\* defaults.
C14_slots_by_variant ==
  LnpriorReturned =>
    IF fitter = "bb"
    THEN /\ Len(out.theta) = SlotsRead_bb(cfg)
         /\ SlotsRead_bb(cfg) =
              5 + Cardinality({q \in TestedToggles_bb : cfg.model[q]})
         /\ SlotsRead_bb(cfg) <= 14
    ELSE /\ Len(out.theta) = SlotsRead_rad_interp(cfg)
         /\ SlotsRead_rad_interp(cfg) = IF cfg.model["binary_ecc"] THEN 8 ELSE 7

\* C14 witness: every attribute the walk of mcmc_fitter_bb tests is true,
\* and lnprior has returned a finite prior for a theta of 14 slots.
C14_witness ==
  /\ UnpackedCall_bb
  /\ \A q \in TestedToggles_bb : cfg.model[q]
  /\ Len(out.theta) = 14
  /\ isfinite(out.ret)

\* The unpackings m and l give every quantity the number the unpacking p
\* gives it, and fail on the theta p fails on
SameNumbers(p, m, l) ==
  /\ m.ok = p.ok
  /\ l.ok = p.ok
  /\ p.ok => \A q \in DOMAIN p \ {"ok"} : m[q].v = p[q].v /\ l[q].v = p[q].v

\* The three walks of mcmc_fitter_bb reach every quantity (and the end of
\* the walk) at the same theta_index and, when theta is long enough, assign
\* it the same number.
SameUnpacking_bb(c, theta) ==
  /\ \A k \in 1..(Len(Quantities_bb) + 1) :
       /\ ThetaIndex_model_obs(c, k) = ThetaIndex_bb(c, k)
       /\ ThetaIndex_lnlike_bb(c, k) = ThetaIndex_bb(c, k)
  /\ SameNumbers(unpack_lnprior_bb(c, theta), unpack_model_bb(c, theta),
                 unpack_lnlike_bb(c, theta))

\* The three tuple assignments of mcmc_fitter_rad_interp give every name the
\* same entry of theta (or binary_ecc the same 0.)
SameUnpacking_rad_interp(c, theta) ==
  /\ unpack_model_lc(c, theta) = unpack_rad_interp(c, theta)
  /\ unpack_lnlike_rad_interp(c, theta) = unpack_rad_interp(c, theta)

\* C12: for every configuration of the toggles and every theta, the three
\* unpackings in lnprior, calculate_model_obs and lnlike (for
\* mcmc_fitter_rad_interp: lnprior, calculate_model_lc and lnlike) assign
\* each quantity the same theta index or the same default, so the prior, the
\* forward model and the phase folding see the same number for it.
C12_same_unpacking ==
  out.op # "none" =>
    IF fitter = "bb" THEN SameUnpacking_bb(cfg, out.theta)
    ELSE SameUnpacking_rad_interp(cfg, out.theta)

\* C12 witness: lnlike of mcmc_fitter_bb has returned a finite value for a
\* theta that is not the base one, with the distance and one more quantity
\* fixed at their defaults.
C12_witness ==
  /\ fitter = "bb" /\ out.op = "lnlike" /\ isfinite(out.ret)
  /\ ~cfg.model["binary_dist"]
  /\ \E q \in TestedToggles_bb \ {"binary_dist"} : ~cfg.model[q]
  /\ out.theta # BaseTheta(fitter, cfg)

----------------------------------------------------------------------------
\* Properties of phase folding and of the sums of lnlike (C19 checked on
\* SpecProb, C16 and C18 on SpecRoles, C15 and C17 on SpecFold)

\* lnlike computed its sums: the forward model succeeded and the
\* observations were taken in phase order
LnlikeSummed == out.op = "lnlike" /\ HasStep("chi_square", "ok")

\* The observation arrays of the fitter, one per band or role
ObsArrays ==
  <<data.kp_obs_mags, data.h_obs_mags, data.obs_rv_pri, data.obs_rv_sec>>

ObsErrorArrays ==
  <<data.kp_obs_mag_errors, data.h_obs_mag_errors,
    data.obs_rv_pri_errors, data.obs_rv_sec_errors>>

\* Every error of every observation is positive
ErrorsPositive ==
  \A b \in 1..4 : \A i \in DOMAIN ObsErrorArrays[b] : ObsErrorArrays[b][i] > 0

\* C19: in lnlike an observation whose value is not a number is excluded
\* from the sum of its band or role, for photometric bands as well as
\* radial-velocity roles, so a not-a-number observation never makes the
\* returned log-likelihood not a number.
C19_nan_observation_excluded ==
  (LnlikeSummed /\ ErrorsPositive) => out.ret # NaN

\* lnlike of mcmc_fitter_bb got a model from the forward model and phased
\* the observation times
LnlikePhased_bb ==
  fitter = "bb" /\ out.op = "lnlike" /\ HasStep("phased_obs", "ok")

\* rv_phase_out[1] of that call: the order of the unique velocity times by
\* phase, which is the order of the model velocities
RVSortedInds ==
  phased_obs(data.observation_times,
             unpack_lnlike_bb(cfg, out.theta).binary_period.v,
             unpack_lnlike_bb(cfg, out.theta).t0.v)[3].inds

\* The observation times of one role, in the order of its observations
RoleTimes(search_filt) == Take(data.obs_times, search_filt)

\* The i-th observation lnlike compares for the role and the i-th model
\* velocity are of one time, and no index is outside the role's array
RolePaired(search_filt, obs_rv) ==
  /\ CanTake(obs_rv, RVSortedInds)
  /\ \A i \in DOMAIN RVSortedInds :
       RoleTimes(search_filt)[RVSortedInds[i]]
         = data.observation_times[3][RVSortedInds[i]]

\* C16: in mcmc_fitter_bb.lnlike the primary and the secondary velocities
\* share one fold and each role is indexed through its own index set: for
\* every assignment of 'rv_pri' / 'rv_sec' labels and times (roles with
\* different numbers of observations or different times included) the i-th
\* compared observation of a role and the i-th model velocity of that role
\* are of one observation time, and no index falls outside the role's
\* observation array.
C16_rv_roles_paired ==
  LnlikePhased_bb =>
    /\ RolePaired(data.search_filt_rv_pri, data.obs_rv_pri)
    /\ RolePaired(data.search_filt_rv_sec, data.obs_rv_sec)

\* The bands of the call in out
FoldBands == DOMAIN out.observation_times

\* The phase of the i-th time of band b lies in [0, 1): phase * period lies
\* in [0, period)
PhaseInUnitInterval(b, i) ==
  /\ Key(out.ph[b].phased[i]) >= 0
  /\ Key(out.ph[b].phased[i]) < Key(Whole(out.binary_period))

\* C17: phase folding computes ((t - t0) mod period) / period with a
\* non-negative remainder, so for any positive period and any t (t < t0
\* included) the phase lies in [0, 1), the phase of t0 is 0 and the phase
\* of t0 + period is 0; the returned model times are phase * period
\* reordered by ascending phase.
C17_phase_in_unit_interval ==
  out.op = "phased_obs" =>
    \A b \in FoldBands :
      /\ \A i \in DOMAIN out.observation_times[b] :
           /\ PhaseInUnitInterval(b, i)
           /\ out.observation_times[b][i]
                \in {Whole(out.t0), Whole(out.t0 + out.binary_period)}
                => out.ph[b].phased[i] = Whole(0)
      /\ out.ph[b].model_times = Take(out.ph[b].phased, out.ph[b].inds)
      /\ \A i, j \in DOMAIN out.ph[b].model_times :
           i < j => Key(out.ph[b].model_times[i])
                      <= Key(out.ph[b].model_times[j])

\* C15: for every period, t0 and set of observation times, the permutation
\* by phase that lnlike applies to the observations (the one phased_obs
\* gives for the period and t0 of theta) is the permutation the forward
\* model used to order the model times, on every path of the forward model
\* (the one included where it is evaluated again with the stars exchanged
\* and t0 less half a period), so observation[i] and model[i] are of one
\* observation time.
C15_same_permutation ==
  out.op = "binary_star_lc" =>
    \A b \in FoldBands :
      out.ph[b].inds
        = phased_obs_float(out.observation_times, out.binary_period,
                           out.t0)[b].inds

\* What phased_obs gives lnlike for the theta of the call in out
PhasedOfCall ==
  IF fitter = "bb"
  THEN phased_obs(data.observation_times,
                  unpack_lnlike_bb(cfg, out.theta).binary_period.v,
                  unpack_lnlike_bb(cfg, out.theta).t0.v)
  ELSE phased_obs(data.observation_times,
                  unpack_lnlike_rad_interp(cfg, out.theta).binary_period,
                  unpack_lnlike_rad_interp(cfg, out.theta).t0)

\* The model values of a band in the order of the band's observations:
\* the j-th is the model at the time of the j-th observation
ModelOfBand(model, b, n) ==
  [j \in 1..n |->
     model[CHOOSE r \in DOMAIN PhasedOfCall[b].inds :
             PhasedOfCall[b].inds[r] = j]]

\* The model velocities of a role in the order of the role's observations
ModelOfRole(model, search_filt) ==
  [j \in 1..Len(search_filt) |->
     model[CHOOSE r \in DOMAIN PhasedOfCall[3].inds :
             data.observation_times[3][PhasedOfCall[3].inds[r]]
               = RoleTimes(search_filt)[j]]]

\* No observation is not-a-number
NoNaNObserved ==
  \A b \in 1..4 : \A i \in DOMAIN ObsArrays[b] : ~ObsArrays[b][i].nan

\* -0.5 times the sum over Kp, H and, for mcmc_fitter_bb, both velocity
\* roles of ((observation - model) / error)^2 over the observations
ChiSquareOfAll ==
  NegHalf(
    FAdd(FAdd(sum_sq(data.kp_obs_mags, data.kp_obs_mag_errors,
                     ModelOfBand(out.model.Kp, 1, Len(data.kp_obs_mags))),
              sum_sq(data.h_obs_mags, data.h_obs_mag_errors,
                     ModelOfBand(out.model.H, 2, Len(data.h_obs_mags)))),
         IF fitter = "bb"
         THEN FAdd(sum_sq(data.obs_rv_pri, data.obs_rv_pri_errors,
                          ModelOfRole(out.model.RVs_pri,
                                      data.search_filt_rv_pri)),
                   sum_sq(data.obs_rv_sec, data.obs_rv_sec_errors,
                          ModelOfRole(out.model.RVs_sec,
                                      data.search_filt_rv_sec)))
         ELSE Zero))

\* C18: on a successful run of the forward model lnlike returns exactly
\* -0.5 times the sum over the photometric bands Kp and H and, in
\* mcmc_fitter_bb, both velocity roles of
\* ((observation_i - model_i) / error_i)^2 over the observations of that
\* band or role; no band or role is left out or counted twice.
C18_lnlike_is_chi_square ==
  (out.op = "lnlike" /\ HasStep("phased_obs", "ok")
     /\ NoNaNObserved /\ ErrorsPositive)
    => out.ret = ChiSquareOfAll

----------------------------------------------------------------------------
\* The frame of the sampling calls (checked on SpecProb)

\* A step that is a call of lnprior, calculate_model_*, lnlike or lnprob,
\* from its entry to its return or to the exception it raises
SamplingCall ==
  /\ out = NoCall
  /\ out' # NoCall
  /\ out'.op \in {"lnprior", "calculate_model", "lnlike", "lnprob"}

\* C20: any sequence of lnprior, calculate_model_lc / calculate_model_obs,
\* lnlike and lnprob calls leaves the configuration of the fitter as it
\* was: prior bounds, toggles and defaults, ordering flags, filter list and
\* reference extinctions, observation times, observations and cached index
\* sets, on the paths that succeed and on those that fail.
C20_calls_leave_configuration ==
  [][SamplingCall => (fitter' = fitter /\ cfg' = cfg /\ data' = data)]_vars

\* C20 witness: on a fitter whose configuration is not the class default
\* and whose observations are set, a call of lnlike or lnprob has ended on a
\* failure path (-infinity or an exception) after calling the forward model.
C20_witness ==
  /\ out.op \in {"lnlike", "lnprob"}
  /\ out.ret \in {NegInf, Raise}
  /\ Invoked("binary_star_lc")
  /\ \E q \in DOMAIN cfg.model : ~cfg.model[q]
  /\ data.has_obs /\ data.has_times

----------------------------------------------------------------------------
\* The frame of the setup calls (checked on Spec)

\* The prior bound of quantity q differs after the step
BoundChanged(q) == cfg'.lo[q] # cfg.lo[q] \/ cfg'.hi[q] # cfg.hi[q]

\* The step is set_<q>_prior_bounds(lo_bound, hi_bound) and leaves q with
\* the arguments of that call
SetterOf(q) ==
  /\ nsetup' = nsetup + 1
  /\ cfg' = [cfg EXCEPT !.lo[q] = AltBounds(q)[1], !.hi[q] = AltBounds(q)[2]]

\* C21: prior bounds are changed only by the set_*_prior_bounds setters: a
\* step that changes the (lo, hi) bound of a quantity is the setter of that
\* quantity, and leaves the bound at the setter's arguments; no other setup
\* call (make_isochrone, make_bb_params, a toggle) alters a bound, so a
\* distance bound survives make_bb_params.
C21_bounds_changed_by_setters_only ==
  [][\A q \in BoundedQs : BoundChanged(q) => SetterOf(q)]_vars

----------------------------------------------------------------------------
\* The bound checks of fixed quantities (checked on Spec)

\* The quantities a toggle can fix at their default
Fixable ==
  IF fitter = "bb"
  THEN {"binary_ecc", "binary_dist", "H_ext_mod"} \cup StarQs
  ELSE {"binary_ecc"}

\* The configuration with the prior bound of q set to (lo_bound, hi_bound)
WithBounds(q, b) == [cfg EXCEPT !.lo[q] = b[1], !.hi[q] = b[2]]

\* Bounds for q other than the configured ones: the class default and the
\* arguments the setter is called with
OtherBounds(q) ==
  {<<ClassDefaults(fitter).lo[q], ClassDefaults(fitter).hi[q]>>, AltBounds(q)}

\* C24: a quantity fixed at its default never causes prior rejection: when
\* lnprior returns minus infinity, it returns minus infinity under every
\* other setting of the prior bounds of every quantity whose toggle is
\* false, so the bound check of a fixed quantity contributes nothing.
C24_fixed_quantity_never_rejects ==
  (LnpriorReturned /\ out.ret.k = "ninf") =>
     \A q \in Fixable :
        ~cfg.model[q] =>
           \A b \in OtherBounds(q) :
              lnprior(fitter, WithBounds(q, b), out.theta).k = "ninf"

----------------------------------------------------------------------------
\* The reference extinctions of the configured filters (checked on SpecFilts)

\* The filter objects of the configured list
ConfiguredFilts == {cfg.filts_list[i] : i \in 1..Len(cfg.filts_list)}

\* C27: make_bb_params stores exactly one reference extinction per
\* configured filter, and every reference-extinction lookup of a later
\* calculate_model_obs is by a filter object of the configured list, so
\* refers to an entry make_bb_params stored.
C27_lookups_in_configured_list ==
  (fitter = "bb" /\ cfg.made) =>
     /\ DOMAIN cfg.filts_ext = ConfiguredFilts
     /\ out.op = "calculate_model" => Lookups_model_obs \subseteq ConfiguredFilts

----------------------------------------------------------------------------
\* The cached observation arrays of mcmc_fitter_bb (checked on SpecObs)

\* The entries of array a whose label in the current obs_filts is label
Labelled(a, label) == Take(a, where(data.obs_filts, label))

\* The entries of array a labelled as a velocity, the primary's first
LabelledRV(a) ==
  Take(a, where(data.obs_filts, "rv_pri") \o where(data.obs_filts, "rv_sec"))

\* The cached arrays are those of the current labels
CacheCurrent ==
  /\ data.kp_obs_mags = Labelled(data.obs, "kp")
  /\ data.kp_obs_mag_errors = Labelled(data.obs_errors, "kp")
  /\ data.h_obs_mags = Labelled(data.obs, "h")
  /\ data.h_obs_mag_errors = Labelled(data.obs_errors, "h")
  /\ data.obs_rv_pri = Labelled(data.obs, "rv_pri")
  /\ data.obs_rv_pri_errors = Labelled(data.obs_errors, "rv_pri")
  /\ data.obs_rv_sec = Labelled(data.obs, "rv_sec")
  /\ data.obs_rv_sec_errors = Labelled(data.obs_errors, "rv_sec")
  /\ data.observation_times =
       <<Labelled(data.obs_times, "kp"), Labelled(data.obs_times, "h"),
         unique(LabelledRV(data.obs_times))>>

\* No per-band or per-role array is cached
CacheEmpty ==
  /\ ~data.has_times /\ ~data.has_obs
  /\ data.observation_times = <<>>
  /\ data.kp_obs_mags = <<>> /\ data.h_obs_mags = <<>>
  /\ data.obs_rv_pri = <<>> /\ data.obs_rv_sec = <<>>

\* C26: in mcmc_fitter_bb the cached per-band and per-role arrays always
\* correspond to the current filter labels: once set_observation_filts,
\* set_observation_times and set_observations have all been called, the
\* cached observations, errors and times are the entries whose label in
\* the most recently set obs_filts matches; a call of set_observation_times
\* or set_observations before any set_observation_filts fails and caches
\* nothing.
C26_cache_follows_labels ==
  fitter = "bb" =>
     /\ (data.has_filts /\ data.has_times /\ data.has_obs) => CacheCurrent
     /\ ~data.has_filts =>
          /\ CacheEmpty
          /\ out.op \in {"set_observation_times", "set_observations"}
               => out.ret = Raise

\* The early calls alone: they fail and cache nothing
C26_early_calls_fail ==
  (fitter = "bb" /\ ~data.has_filts) =>
     /\ CacheEmpty
     /\ out.op \in {"set_observation_times", "set_observations"}
          => out.ret = Raise

----------------------------------------------------------------------------
\* Configuration is per instance (checked on SpecInst)

\* What instance i of w reads for every attribute the class defines
View(w, i) == [a \in DOMAIN w.class |-> getattr(w, i, a)]

\* The instances whose configuration, as read or as carried, differs after
\* the step
Touched ==
  {i \in 1..Len(cfg.objs) :
     View(cfg', i) # View(cfg, i) \/ cfg'.objs[i] # cfg.objs[i]}

\* C29: configuration is per fitter instance: a setter called on one
\* instance (set_*_prior_bounds, a model toggle, make_bb_params,
\* make_isochrone) changes that instance only; the class-level defaults
\* stay as the class statement defines them, every other existing instance
\* reads what it read before, and an instance created later reads the
\* class-level defaults.
C29_configuration_per_instance ==
  [][/\ cfg'.class = ClassDict(fitter)
     /\ Cardinality(Touched) <= 1
     /\ Len(cfg'.objs) > Len(cfg.objs) =>
          /\ Touched = {}
          /\ View(cfg', Len(cfg'.objs)) = ClassDict(fitter)]_vars

\* Two instances: the first with distance bounds of its own, from a
\* setter or from make_bb_params, the second reading the class default
C29_witness ==
  /\ fitter = "bb"
  /\ Len(cfg.objs) = 2
  /\ <<"lo", "binary_dist">> \in DOMAIN cfg.objs[1]
  /\ getattr(cfg, 1, <<"lo", "binary_dist">>) # cfg.class[<<"lo", "binary_dist">>]
  /\ cfg.objs[2] = NoAttrs
  /\ View(cfg, 2) = ClassDict(fitter)

----------------------------------------------------------------------------
\* Properties of the forward model of mesh_animate (checked on SpecMesh)

\* The call in out is one of binary_star_mesh
MeshCall == out.op = "binary_star_mesh"

\* Every array of the returned tuple has the failure value first
FailureValue(ret) ==
  /\ Len(ret) > 0
  /\ \A i \in 1..Len(ret) : ret[i][1] = Sentinel

\* The call got as far as run_compute: the datasets are on the binary
ReachedCompute == out.r.b.datasets # {}

\* C22: an exception the engine raises in run_compute, of a single star or
\* of a binary, is caught there and turned into the failure value (arrays
\* whose first element is -1.0); it never leaves the function.
C22_compute_exception_caught ==
  /\ (out.op = "single_star_mesh" /\ out.eng.run_compute # "ok") =>
        (out.r.res = "ok" /\ FailureValue(out.r.ret))
  /\ (MeshCall /\ ReachedCompute /\ out.eng.run_compute # "ok") =>
        (out.r.res = "ok" /\ out.r.exc = "" /\ FailureValue(out.r.ret))

\* run_compute of a binary was interrupted from the keyboard and the two
\* failure arrays came back
C22_witness ==
  /\ MeshCall /\ ReachedCompute
  /\ out.eng.run_compute = "KeyboardInterrupt"
  /\ out.r.res = "ok"
  /\ out.r.ret = err_out_mesh

\* Both stars exceed their largest radius and neither is semidetached
BothOverflow == overflow(out.star1_params) /\ overflow(out.star2_params)

\* The overflow of star 1 relative to its largest radius is at least that
\* of star 2: (r1 - m1) / m1 >= (r2 - m2) / m2
Star1RelativeOverflowLarger ==
  (out.star1_params.rad - out.star1_params.rad_max) * out.star2_params.rad_max
    >= (out.star2_params.rad - out.star2_params.rad_max)
         * out.star1_params.rad_max

\* C23: when both stars are found overflowing, the star with the larger
\* relative overflow stays flagged and the other flag is cleared, star 1
\* being kept when the two are equal, so at most one star is flagged.
C23_larger_relative_overflow_kept ==
  (MeshCall /\ BothOverflow) =>
     /\ ~(out.r.flags.star1_overflow /\ out.r.flags.star2_overflow)
     /\ out.r.flags.star1_overflow = Star1RelativeOverflowLarger
     /\ out.r.flags.star2_overflow = ~Star1RelativeOverflowLarger

\* The part of C23 that holds: at most one flag is left, and it is the
\* flag of the star whose radius exceeds its largest radius by more solar
\* radii (star 1 when equal)
C23_at_most_one_flag ==
  (MeshCall /\ BothOverflow) =>
     /\ ~(out.r.flags.star1_overflow /\ out.r.flags.star2_overflow)
     /\ out.r.flags.star1_overflow =
          ((out.star1_params.rad - out.star1_params.rad_max)
             >= (out.star2_params.rad - out.star2_params.rad_max))
     /\ out.r.flags.star2_overflow = ~out.r.flags.star1_overflow

\* C25: binary_mesh_calc reports a failure of the forward model as minus
\* infinity, without raising, with make_mesh_plots true and false: the
\* failure value binary_star_mesh returns is unpacked and recognised.
C25_failure_value_is_minus_infinity ==
  (/\ out.op = "binary_mesh_calc"
   /\ out.r.mesh.res = "ok"
   /\ FailureValue(out.r.mesh.ret)) => out.r.ret = NegInf

\* The part of C25 that holds: without mesh plots
C25_failure_value_without_plots ==
  (/\ out.op = "binary_mesh_calc"
   /\ ~out.make_mesh_plots
   /\ out.r.mesh.res = "ok"
   /\ FailureValue(out.r.mesh.ret)) => out.r.ret = NegInf

\* Star 2 is flagged overflowing and star 1 is not
Star2AloneOverflows ==
  out.r.flags.star2_overflow /\ ~out.r.flags.star1_overflow

\* C28: exactly when star 2 is flagged overflowing and star 1 is not, the
\* model is evaluated again with the two stars exchanged and t0 moved back
\* by half the period, everything else as given, and that result is
\* returned; in every other case nothing is evaluated again.
C28_exchange_when_star2_overflows ==
  MeshCall =>
     /\ out.r.redo.made = Star2AloneOverflows
     /\ out.r.redo.made =>
          /\ out.r.res = "ok"
          /\ out.r.redo.star1_params = out.star2_params
          /\ out.r.redo.star2_params = out.star1_params
          /\ out.r.redo.binary_params =
               [out.binary_params EXCEPT
                  !.t0 = @ - out.binary_params.binary_period \div 2]

\* The part of C28 that holds: nothing is evaluated again unless star 2
\* alone overflows, and then no dataset is added to the binary of the call
\* and it is not computed
C28_no_exchange_otherwise ==
  MeshCall =>
     /\ out.r.redo.made => Star2AloneOverflows
     /\ (Star2AloneOverflows /\ ~out.r.redo.made) =>
          (out.r.b.datasets = {} /\ ~out.r.b.computed)

\* Neither star is flagged semidetached or overflowing
Detached ==
  /\ ~out.r.flags.star1_semidetached /\ ~out.r.flags.star2_semidetached
  /\ ~out.r.flags.star1_overflow /\ ~out.r.flags.star2_overflow

\* C30: the binary that is computed carries the proposed eccentricity only
\* if the system is detached: a computed binary on which a non-zero
\* eccentricity was set is detached and the eccentricity is the proposed
\* one, a detached one carries the proposed eccentricity, and a
\* semidetached or overflowing one carries none of its own or 0.
C30_eccentricity_only_if_detached ==
  (MeshCall /\ out.r.b.computed) =>
     /\ (out.r.b.ecc.set /\ out.r.b.ecc.v # 0) => Detached
     /\ Detached => out.r.b.ecc = EccSet(out.binary_params.binary_ecc)
     /\ ~Detached => out.r.b.ecc \in {EccSet(0), EccDefault}

\* A semidetached binary proposed with eccentricity 0.3 was computed with
\* eccentricity 0, and a contact binary with none set
C30_witness ==
  /\ MeshCall /\ out.r.b.computed
  /\ out.binary_params.binary_ecc = 3
  /\ \/ out.r.flags.star1_semidetached /\ out.r.b.ecc = EccSet(0)
     \/ out.r.flags.star1_overflow /\ out.r.b.contact
        /\ out.r.b.ecc = EccDefault

====
